---- MODULE Spec2Model ----
(***************************************************************************)
(* Model of the Vertex AI Claude provider (index.ts): the stop-reason      *)
(* classifier, the tolerant JSON parser and the streaming translator       *)
(* streamVertexClaude, which consumes the vendor's events one at a time    *)
(* and pushes normalized events into the assistant message event stream.   *)
(*                                                                         *)
(* Strings that the program only compares are TLA+ strings.  Strings that  *)
(* the program concatenates or parses are sequences: text and thinking are *)
(* sequences of characters, a JSON text is a sequence of lexical tokens,   *)
(* an error message is a sequence of message parts.                        *)
(***************************************************************************)
EXTENDS Integers, Sequences, FiniteSets, TLC

\* ------------------------------------------------------------------------
\* Bounds of the model
\* ------------------------------------------------------------------------

\* vendor events consumed by one stream call
MaxConsumed == 4

\* ------------------------------------------------------------------------
\* JSON values and JSON texts
\* ------------------------------------------------------------------------

\* A JSON value is [k |-> kind, e |-> parts]: the entries <<key, value>> of
\* an object in insertion order, the items of an array, nothing for a scalar.
Obj(entries) == [k |-> "object", e |-> entries]

Arr(items) == [k |-> "array", e |-> items]

JNum == [k |-> "number", e |-> <<>>]

JNull == [k |-> "null", e |-> <<>>]

JStr == [k |-> "string", e |-> <<>>]

EmptyObj == Obj(<<>>)

\* A JSON text is a sequence of lexical tokens: { } [ ] , : the string "a",
\* the number 1, null, and the blank; any other token is text that is no JSON.
Blank == " "

\* obj[key] = value
RECURSIVE SetKey(_, _, _)
SetKey(entries, key, value) ==
    IF entries = <<>> THEN << <<key, value>> >>
    ELSE IF Head(entries)[1] = key THEN << <<key, value>> >> \o Tail(entries)
    ELSE <<Head(entries)>> \o SetKey(Tail(entries), key, value)

RECURSIVE SkipBlank(_, _)
SkipBlank(s, i) ==
    IF i <= Len(s) /\ s[i] = Blank THEN SkipBlank(s, i + 1) ELSE i

\* String.prototype.trim() === ""
IsBlank(s) == \A i \in 1..Len(s) : s[i] = Blank

\* a parse that threw
Thrown == [ok |-> FALSE, v |-> JNull, i |-> 0]

Parsed(value, next) == [ok |-> TRUE, v |-> value, i |-> next]

\* JSON.parse: the strict grammar, the whole text must be one value
RECURSIVE StrictValue(_, _)
RECURSIVE StrictMembers(_, _, _)
RECURSIVE StrictItems(_, _, _)
StrictValue(s, i0) ==
    LET i == SkipBlank(s, i0) IN
    IF i > Len(s) THEN Thrown
    ELSE CASE s[i] = "{" ->
                LET j == SkipBlank(s, i + 1) IN
                IF j <= Len(s) /\ s[j] = "}" THEN Parsed(EmptyObj, j + 1)
                ELSE StrictMembers(s, j, <<>>)
           [] s[i] = "[" ->
                LET j == SkipBlank(s, i + 1) IN
                IF j <= Len(s) /\ s[j] = "]" THEN Parsed(Arr(<<>>), j + 1)
                ELSE StrictItems(s, j, <<>>)
           [] s[i] = "1" -> Parsed(JNum, i + 1)
           [] s[i] = "null" -> Parsed(JNull, i + 1)
           [] s[i] = "\"a\"" -> Parsed(JStr, i + 1)
           [] OTHER -> Thrown

StrictMembers(s, i, entries) ==
    IF i > Len(s) \/ s[i] # "\"a\"" THEN Thrown
    ELSE LET c == SkipBlank(s, i + 1) IN
         IF c > Len(s) \/ s[c] # ":" THEN Thrown
         ELSE LET r == StrictValue(s, c + 1) IN
              IF ~r.ok THEN Thrown
              ELSE LET n == SkipBlank(s, r.i)
                       acc == SetKey(entries, "a", r.v)
                   IN IF n > Len(s) THEN Thrown
                      ELSE IF s[n] = "}" THEN Parsed(Obj(acc), n + 1)
                      ELSE IF s[n] = "," THEN StrictMembers(s, SkipBlank(s, n + 1), acc)
                      ELSE Thrown

StrictItems(s, i, items) ==
    LET r == StrictValue(s, i) IN
    IF ~r.ok THEN Thrown
    ELSE LET n == SkipBlank(s, r.i)
             acc == Append(items, r.v)
         IN IF n > Len(s) THEN Thrown
            ELSE IF s[n] = "]" THEN Parsed(Arr(acc), n + 1)
            ELSE IF s[n] = "," THEN StrictItems(s, n + 1, acc)
            ELSE Thrown

JSONparse(s) ==
    LET r == StrictValue(s, 1) IN
    IF r.ok /\ SkipBlank(s, r.i) > Len(s) THEN r ELSE Thrown

\* the end of a number literal: the next of , ] } or the end of the text
RECURSIVE NumEnd(_, _)
NumEnd(s, i) ==
    IF i > Len(s) \/ s[i] \in {",", "]", "}"} THEN i ELSE NumEnd(s, i + 1)

\* parse of the partial-json package with every Allow flag set: the value
\* read up to the point where the text stops or stops being JSON; an object
\* or array under construction is returned with the members read so far.
RECURSIVE PartialAny(_, _)
RECURSIVE PartialObj(_, _, _)
RECURSIVE PartialArr(_, _, _)
PartialAny(s, i0) ==
    LET i == SkipBlank(s, i0) IN
    IF i > Len(s) THEN Thrown
    ELSE CASE s[i] = "\"a\"" -> Parsed(JStr, i + 1)
           [] s[i] = "{" -> PartialObj(s, SkipBlank(s, i + 1), <<>>)
           [] s[i] = "[" -> PartialArr(s, i + 1, <<>>)
           [] s[i] = "null" -> Parsed(JNull, i + 1)
           [] OTHER ->
                IF i = 1 THEN JSONparse(s)
                ELSE LET j == NumEnd(s, i)
                         r == JSONparse(SubSeq(s, i, j - 1))
                     IN IF r.ok THEN Parsed(r.v, j) ELSE Thrown

PartialObj(s, i0, entries) ==
    IF i0 <= Len(s) /\ s[i0] = "}" THEN Parsed(Obj(entries), i0 + 1)
    ELSE LET i == SkipBlank(s, i0) IN
         IF i > Len(s) \/ s[i] # "\"a\"" THEN Parsed(Obj(entries), i)
         ELSE LET c == SkipBlank(s, i + 1)
                  r == PartialAny(s, c + 1)
              IN IF ~r.ok THEN Parsed(Obj(entries), Len(s) + 1)
                 ELSE LET n == SkipBlank(s, r.i)
                          m == IF n <= Len(s) /\ s[n] = "," THEN n + 1 ELSE n
                      IN PartialObj(s, m, SetKey(entries, "a", r.v))

PartialArr(s, i, items) ==
    IF i <= Len(s) /\ s[i] = "]" THEN Parsed(Arr(items), i + 1)
    ELSE LET r == PartialAny(s, i) IN
         IF ~r.ok THEN Parsed(Arr(items), Len(s) + 1)
         ELSE LET n == SkipBlank(s, r.i)
                  m == IF n <= Len(s) /\ s[n] = "," THEN n + 1 ELSE n
              IN PartialArr(s, m, Append(items, r.v))

partialParse(s) == PartialAny(s, 1)

\* parseStreamingJson: the value the function returns (it never throws)
parseStreamingJson(partialJson) ==
    IF partialJson = <<>> \/ IsBlank(partialJson) THEN EmptyObj
    ELSE LET strict == JSONparse(partialJson) IN
         IF strict.ok THEN strict.v
         ELSE LET recovered == partialParse(partialJson) IN
              IF ~recovered.ok THEN EmptyObj
              ELSE IF recovered.v = JNull THEN EmptyObj
              ELSE recovered.v

\* ------------------------------------------------------------------------
\* Stop-reason classifier
\* ------------------------------------------------------------------------

Returned(value) == [threw |-> FALSE, value |-> value, message |-> <<>>]

Threw(message) == [threw |-> TRUE, value |-> "", message |-> message]

\* faulty variant: pause_turn classified as a length stop
mapStopReasonPauseAsLength(reason) ==
    CASE reason \in {"end_turn", "stop_sequence"} -> Returned("stop")
      [] reason \in {"max_tokens", "pause_turn"} -> Returned("length")
      [] reason = "tool_use" -> Returned("toolUse")
      [] reason = "refusal" -> Returned("error")
      [] OTHER -> Threw(<<"Unhandled stop reason: ", reason>>)

\* faulty variant: an unrecognized reason defaults to stop
mapStopReasonDefaults(reason) ==
    CASE reason \in {"end_turn", "pause_turn", "stop_sequence"} -> Returned("stop")
      [] reason = "max_tokens" -> Returned("length")
      [] reason = "tool_use" -> Returned("toolUse")
      [] reason = "refusal" -> Returned("error")
      [] OTHER -> Returned("stop")

mapStopReason(reason) ==
    CASE reason \in {"end_turn", "pause_turn", "stop_sequence"} -> Returned("stop")
      [] reason = "max_tokens" -> Returned("length")
      [] reason = "tool_use" -> Returned("toolUse")
      [] reason = "refusal" -> Returned("error")
      [] OTHER -> Threw(<<"Unhandled stop reason: ", reason>>)

\* ------------------------------------------------------------------------
\* Inputs: what the environment and the vendor stream may deliver
\* ------------------------------------------------------------------------

\* position tags of the vendor's content blocks
VendorTags == {0, 1}

\* content_block.type of a content_block_start event
BlockKinds == {"text", "thinking", "tool_use", "redacted_thinking"}

TextDeltas == {<<"H">>, <<"w">>}

ThinkingDeltas == {<<"t">>}

SignatureDeltas == {<<"s">>}

\* fragments of a tool call's input JSON
JsonFragments == {<<"{", "\"a\"", ":", "1">>, <<"}">>, <<"[", "1", "]">>}

\* delta.stop_reason of a message_delta that reports none (null)
NoReason == ""

\* stop reasons the vendor may report: the recognized ones and others
RecognizedReasons == {"end_turn", "pause_turn", "stop_sequence", "max_tokens", "tool_use", "refusal"}

VendorReasons == RecognizedReasons \cup {"unknown"}

MessageStarts ==
    { [type |-> "message_start", message |-> [usage |-> u]] :
        u \in { [input_tokens |-> 10, output_tokens |-> 0],
                [input_tokens |-> 3, output_tokens |-> 1,
                 cache_read_input_tokens |-> 2, cache_creation_input_tokens |-> 4] } }

BlockStarts ==
    { [type |-> "content_block_start", index |-> t, content_block |-> [type |-> k]] :
        t \in VendorTags, k \in BlockKinds }

Deltas ==
    { [type |-> "text_delta", text |-> d] : d \in TextDeltas }
    \cup { [type |-> "thinking_delta", thinking |-> d] : d \in ThinkingDeltas }
    \cup { [type |-> "input_json_delta", partial_json |-> d] : d \in JsonFragments }
    \cup { [type |-> "signature_delta", signature |-> d] : d \in SignatureDeltas }

BlockDeltas ==
    { [type |-> "content_block_delta", index |-> t, delta |-> d] :
        t \in VendorTags, d \in Deltas }

BlockStops == { [type |-> "content_block_stop", index |-> t] : t \in VendorTags }

DeltaUsages ==
    { [output_tokens |-> 5],
      [input_tokens |-> 7, output_tokens |-> 0,
       cache_read_input_tokens |-> 1, cache_creation_input_tokens |-> 2] }

MessageDeltas ==
    { [type |-> "message_delta", delta |-> [stop_reason |-> r], usage |-> [output_tokens |-> 5]] :
        r \in VendorReasons }
    \cup { [type |-> "message_delta", delta |-> [stop_reason |-> "unknown"], usage |-> u] :
        u \in DeltaUsages }
    \cup { [type |-> "message_delta", delta |-> [stop_reason |-> NoReason], usage |-> u] :
        u \in DeltaUsages }

\* events the loop has no branch for
OtherEvents == { [type |-> "message_stop"] }

\* messages of the exceptions the vendor stream may raise
VendorErrors == { <<"Connection error.">> }

\* ------------------------------------------------------------------------
\* State
\* ------------------------------------------------------------------------

VARIABLES
    pc,        \* "init" before the call, "loop" while vendor events are consumed, "done"
    aborted,   \* options.signal.aborted
    output,    \* the AssistantMessage under construction
    events,    \* what has been pushed into the stream, in order
    ended,     \* stream.end() was called
    event,     \* the vendor event consumed last
    consumed,  \* number of vendor events consumed
    env,       \* what the environment resolves: the project id, the credentials
    taken      \* number of events of the stream the consumer has taken

\* the state of convertMessages: pc is "convert" until the cache annotation
\* is made, "converted" at its return
VARIABLES
    messages,  \* the conversation to convert
    model,     \* the model descriptor
    params,    \* the vendor messages built so far
    msgIndex   \* the loop variable i, counted from 1

\* the state of the construction of the request: pc is "params" before the
\* request is built, "thinking" before the reasoning block, "built" after it
VARIABLES
    options,   \* the caller's options
    request    \* the vendor request (params of streamVertexClaude)

streamVars == <<aborted, output, events, ended, event, consumed, env, taken>>

convertVars == <<messages, model, params, msgIndex>>

requestVars == <<options, request>>

vars == <<pc, streamVars, convertVars, requestVars>>

\* The prices of the model table, per million tokens, in hundredths of a
\* dollar (18.75 is 1875), so that every price is an integer.
OpusCost == [input |-> 1500, output |-> 7500, cacheRead |-> 150, cacheWrite |-> 1875]

SonnetCost == [input |-> 300, output |-> 1500, cacheRead |-> 30, cacheWrite |-> 375]

HaikuCost == [input |-> 80, output |-> 400, cacheRead |-> 8, cacheWrite |-> 100]

\* a model descriptor: the fields the program reads
Model(input, reasoning, maxTokens, cost) ==
    [input |-> input, reasoning |-> reasoning, maxTokens |-> maxTokens, cost |-> cost]

\* the variables of convertMessages while it is not running
ConvertIdle ==
    /\ messages = <<>>
    /\ model = Model({"text", "image"}, TRUE, 64000, SonnetCost)
    /\ params = <<>>
    /\ msgIndex = 0

\* the variables of the request construction while it is not running
RequestIdle ==
    /\ options = <<>>
    /\ request = <<>>

\* the variables of the stream before the call
StreamIdle ==
    /\ aborted = FALSE
    /\ events = <<>>
    /\ ended = FALSE
    /\ event = [type |-> "none"]
    /\ consumed = 0
    /\ taken = 0

Has(r, f) == f \in DOMAIN r

\* delete r[f]
Delete(r, f) == [x \in DOMAIN r \ {f} |-> r[x]]

\* x || 0
OrZero(r, f) == IF Has(r, f) THEN r[f] ELSE 0

TotalTokens(u) == u.input + u.output + u.cacheRead + u.cacheWrite

\* blocks.findIndex((b) => b.index === tag), 0 when there is none
FindIndex(blocks, tag) ==
    LET hits == { i \in 1..Len(blocks) : Has(blocks[i], "index") /\ blocks[i].index = tag }
    IN IF hits = {} THEN 0 ELSE CHOOSE i \in hits : \A j \in hits : i <= j

\* the result of one step of the translator: the output after it, the
\* events it pushed, and the exception it raised if any
Step(out, pushed) == [output |-> out, pushed |-> pushed, threw |-> FALSE, message |-> <<>>]

Raise(out, pushed, message) == [output |-> out, pushed |-> pushed, threw |-> TRUE, message |-> message]

\* ------------------------------------------------------------------------
\* The translator, one operator per branch of the event loop
\* ------------------------------------------------------------------------

\* The normalized events.  The partial, message, error and toolCall fields of
\* an event are references to the one output record (and to a block of it),
\* not copies: what they show is the variable output, and they are not
\* repeated in the event.
StartEvent == [type |-> "start"]

BlockStartEvent(kind, contentIndex) ==
    [type |-> kind \o "_start", contentIndex |-> contentIndex]

BlockDeltaEvent(kind, contentIndex, delta) ==
    [type |-> kind \o "_delta", contentIndex |-> contentIndex, delta |-> delta]

BlockEndEvent(kind, contentIndex, content) ==
    [type |-> kind \o "_end", contentIndex |-> contentIndex, content |-> content]

ToolcallEndEvent(contentIndex) ==
    [type |-> "toolcall_end", contentIndex |-> contentIndex]

DoneEvent(reason) == [type |-> "done", reason |-> reason]

ErrorEvent(reason) == [type |-> "error", reason |-> reason]

\* the output record created at the start of the call
InitialOutput ==
    [ role |-> "assistant",
      content |-> <<>>,
      usage |-> [input |-> 0, output |-> 0, cacheRead |-> 0, cacheWrite |-> 0, totalTokens |-> 0,
                 cost |-> [input |-> 0, output |-> 0, cacheRead |-> 0, cacheWrite |-> 0,
                           total |-> 0]],
      stopReason |-> "stop" ]

\* project id, credentials, and opening the vendor stream
\* faulty variant: the start event pushed before the preconditions are checked
OnCallStartFirst(out, hasProject, hasAdc) ==
    IF ~hasProject THEN Raise(out, <<StartEvent>>, <<"Vertex AI requires a project ID.">>)
    ELSE IF ~hasAdc
         THEN Raise(out, <<StartEvent>>, <<"Vertex AI requires Application Default Credentials.">>)
    ELSE Step(out, <<StartEvent>>)

OnCall(out, hasProject, hasAdc) ==
    IF ~hasProject THEN Raise(out, <<>>, <<"Vertex AI requires a project ID.">>)
    ELSE IF ~hasAdc THEN Raise(out, <<>>, <<"Vertex AI requires Application Default Credentials.">>)
    ELSE Step(out, <<StartEvent>>)

\* calculateCost(model, usage): the cost of each category is its counter times
\* the model's price per million tokens, divided by 1,000,000, and the total is
\* the sum of the four.  With prices in hundredths of a dollar the costs are
\* kept in units of 10^-8 dollar, where the division is exact.
calculateCost(mdl, u) ==
    LET c == [f \in DOMAIN mdl.cost |-> u[f] * mdl.cost[f]]
    IN [u EXCEPT !.cost = [input |-> c.input, output |-> c.output,
                           cacheRead |-> c.cacheRead, cacheWrite |-> c.cacheWrite,
                           total |-> c.input + c.output + c.cacheRead + c.cacheWrite]]

\* faulty variant: the start event pushed on message_start
OnMessageStartPushesStart(out, ev) ==
    LET rep == ev.message.usage
        u1 == [out.usage EXCEPT !.input = OrZero(rep, "input_tokens"),
                                !.output = OrZero(rep, "output_tokens"),
                                !.cacheRead = OrZero(rep, "cache_read_input_tokens"),
                                !.cacheWrite = OrZero(rep, "cache_creation_input_tokens")]
        u2 == [u1 EXCEPT !.totalTokens = TotalTokens(u1)]
    IN Step([out EXCEPT !.usage = calculateCost(model, u2)], <<StartEvent>>)

OnMessageStart(out, ev) ==
    LET rep == ev.message.usage
        u1 == [out.usage EXCEPT !.input = OrZero(rep, "input_tokens"),
                                !.output = OrZero(rep, "output_tokens"),
                                !.cacheRead = OrZero(rep, "cache_read_input_tokens"),
                                !.cacheWrite = OrZero(rep, "cache_creation_input_tokens")]
        u2 == [u1 EXCEPT !.totalTokens = TotalTokens(u1)]
    IN Step([out EXCEPT !.usage = calculateCost(model, u2)], <<>>)

\* the block appended for a content_block_start of a supported kind
NewBlock(ev) ==
    CASE ev.content_block.type = "text" ->
            [type |-> "text", text |-> <<>>, index |-> ev.index]
      [] ev.content_block.type = "thinking" ->
            [type |-> "thinking", thinking |-> <<>>, thinkingSignature |-> <<>>, index |-> ev.index]
      [] ev.content_block.type = "tool_use" ->
            [type |-> "toolCall", id |-> "toolu_1", name |-> "tool",
             arguments |-> EmptyObj, partialJson |-> <<>>, index |-> ev.index]

\* the prefix of a block's event names
EventKind(block) == IF block.type = "toolCall" THEN "toolcall" ELSE block.type

\* faulty variant: the vendor's position tag reported as the content index
OnBlockStartVendorIndex(out, ev) ==
    IF ev.content_block.type \notin {"text", "thinking", "tool_use"} THEN Step(out, <<>>)
    ELSE LET block == NewBlock(ev)
             out1 == [out EXCEPT !.content = Append(@, block)]
         IN Step(out1, <<BlockStartEvent(EventKind(block), ev.index)>>)

OnBlockStart(out, ev) ==
    IF ev.content_block.type \notin {"text", "thinking", "tool_use"} THEN Step(out, <<>>)
    ELSE LET block == NewBlock(ev)
             out1 == [out EXCEPT !.content = Append(@, block)]
         IN Step(out1, <<BlockStartEvent(EventKind(block), Len(out1.content) - 1)>>)

\* faulty variant: a delta for a position that holds no block fails the call
OnBlockDeltaUnknownFails(out, ev) ==
    LET i == FindIndex(out.content, ev.index) IN
    IF i = 0 THEN Raise(out, <<>>, <<"Unknown content block">>)
    ELSE LET block == out.content[i] IN
         CASE ev.delta.type = "text_delta" /\ block.type = "text" ->
                LET out1 == [out EXCEPT !.content[i].text = @ \o ev.delta.text]
                IN Step(out1, <<BlockDeltaEvent("text", i - 1, ev.delta.text)>>)
           [] ev.delta.type = "thinking_delta" /\ block.type = "thinking" ->
                LET out1 == [out EXCEPT !.content[i].thinking = @ \o ev.delta.thinking]
                IN Step(out1, <<BlockDeltaEvent("thinking", i - 1, ev.delta.thinking)>>)
           [] ev.delta.type = "input_json_delta" /\ block.type = "toolCall" ->
                LET buffer == block.partialJson \o ev.delta.partial_json
                    out1 == [out EXCEPT !.content[i].partialJson = buffer,
                                        !.content[i].arguments = parseStreamingJson(buffer)]
                IN Step(out1, <<BlockDeltaEvent("toolcall", i - 1, ev.delta.partial_json)>>)
           [] ev.delta.type = "signature_delta" /\ block.type = "thinking" ->
                Step([out EXCEPT !.content[i].thinkingSignature = @ \o ev.delta.signature], <<>>)
           [] OTHER -> Step(out, <<>>)

\* faulty variant: the arguments parsed from the fragment, not from the buffer
OnBlockDeltaParsesFragment(out, ev) ==
    LET i == FindIndex(out.content, ev.index) IN
    IF i = 0 THEN Step(out, <<>>)
    ELSE LET block == out.content[i] IN
         CASE ev.delta.type = "text_delta" /\ block.type = "text" ->
                LET out1 == [out EXCEPT !.content[i].text = @ \o ev.delta.text]
                IN Step(out1, <<BlockDeltaEvent("text", i - 1, ev.delta.text)>>)
           [] ev.delta.type = "thinking_delta" /\ block.type = "thinking" ->
                LET out1 == [out EXCEPT !.content[i].thinking = @ \o ev.delta.thinking]
                IN Step(out1, <<BlockDeltaEvent("thinking", i - 1, ev.delta.thinking)>>)
           [] ev.delta.type = "input_json_delta" /\ block.type = "toolCall" ->
                LET buffer == block.partialJson \o ev.delta.partial_json
                    out1 == [out EXCEPT !.content[i].partialJson = buffer,
                                        !.content[i].arguments =
                                            parseStreamingJson(ev.delta.partial_json)]
                IN Step(out1, <<BlockDeltaEvent("toolcall", i - 1, ev.delta.partial_json)>>)
           [] ev.delta.type = "signature_delta" /\ block.type = "thinking" ->
                Step([out EXCEPT !.content[i].thinkingSignature = @ \o ev.delta.signature], <<>>)
           [] OTHER -> Step(out, <<>>)

OnBlockDelta(out, ev) ==
    LET i == FindIndex(out.content, ev.index) IN
    IF i = 0 THEN Step(out, <<>>)
    ELSE LET block == out.content[i] IN
         CASE ev.delta.type = "text_delta" /\ block.type = "text" ->
                LET out1 == [out EXCEPT !.content[i].text = @ \o ev.delta.text]
                IN Step(out1, <<BlockDeltaEvent("text", i - 1, ev.delta.text)>>)
           [] ev.delta.type = "thinking_delta" /\ block.type = "thinking" ->
                LET out1 == [out EXCEPT !.content[i].thinking = @ \o ev.delta.thinking]
                IN Step(out1, <<BlockDeltaEvent("thinking", i - 1, ev.delta.thinking)>>)
           [] ev.delta.type = "input_json_delta" /\ block.type = "toolCall" ->
                LET buffer == block.partialJson \o ev.delta.partial_json
                    out1 == [out EXCEPT !.content[i].partialJson = buffer,
                                        !.content[i].arguments = parseStreamingJson(buffer)]
                IN Step(out1, <<BlockDeltaEvent("toolcall", i - 1, ev.delta.partial_json)>>)
           [] ev.delta.type = "signature_delta" /\ block.type = "thinking" ->
                Step([out EXCEPT !.content[i].thinkingSignature = @ \o ev.delta.signature], <<>>)
           [] OTHER -> Step(out, <<>>)

\* faulty variant: the position tag is left on the block
OnBlockStopKeepsIndex(out, ev) ==
    LET i == FindIndex(out.content, ev.index) IN
    IF i = 0 THEN Step(out, <<>>)
    ELSE LET block == out.content[i] IN
         IF block.type = "toolCall"
         THEN LET final == [block EXCEPT !.arguments = parseStreamingJson(block.partialJson)]
                  out1 == [out EXCEPT !.content[i] = final]
              IN Step(out1, <<ToolcallEndEvent(i - 1)>>)
         ELSE LET content == IF block.type = "text" THEN block.text ELSE block.thinking
              IN Step(out, <<BlockEndEvent(block.type, i - 1, content)>>)

OnBlockStop(out, ev) ==
    LET i == FindIndex(out.content, ev.index) IN
    IF i = 0 THEN Step(out, <<>>)
    ELSE LET block == Delete(out.content[i], "index") IN
         IF block.type = "toolCall"
         THEN LET final == Delete([block EXCEPT !.arguments = parseStreamingJson(block.partialJson)],
                                  "partialJson")
                  out1 == [out EXCEPT !.content[i] = final]
              IN Step(out1, <<ToolcallEndEvent(i - 1)>>)
         ELSE LET out1 == [out EXCEPT !.content[i] = block]
                  content == IF block.type = "text" THEN block.text ELSE block.thinking
              IN Step(out1, <<BlockEndEvent(block.type, i - 1, content)>>)

\* usage field f of the output after a message_delta reporting rep
Overwrite(old, rep, f) == IF Has(rep, f) THEN rep[f] ELSE old

\* faulty variant: reported usage added to the counters
OnMessageDeltaSums(out, ev) ==
    LET r == IF ev.delta.stop_reason # NoReason THEN mapStopReason(ev.delta.stop_reason)
             ELSE Returned(out.stopReason)
    IN IF r.threw THEN Raise(out, <<>>, r.message)
       ELSE LET rep == ev.usage
                u1 == [out.usage EXCEPT
                          !.input = @ + OrZero(rep, "input_tokens"),
                          !.output = @ + OrZero(rep, "output_tokens"),
                          !.cacheRead = @ + OrZero(rep, "cache_read_input_tokens"),
                          !.cacheWrite = @ + OrZero(rep, "cache_creation_input_tokens")]
                u2 == [u1 EXCEPT !.totalTokens = TotalTokens(u1)]
            IN Step([out EXCEPT !.stopReason = r.value,
                                !.usage = calculateCost(model, u2)], <<>>)

\* faulty variant: the cost left as it was computed for the previous counters
OnMessageDeltaStaleCost(out, ev) ==
    LET r == IF ev.delta.stop_reason # NoReason THEN mapStopReason(ev.delta.stop_reason)
             ELSE Returned(out.stopReason)
    IN IF r.threw THEN Raise(out, <<>>, r.message)
       ELSE LET rep == ev.usage
                u1 == [out.usage EXCEPT
                          !.input = Overwrite(@, rep, "input_tokens"),
                          !.output = Overwrite(@, rep, "output_tokens"),
                          !.cacheRead = Overwrite(@, rep, "cache_read_input_tokens"),
                          !.cacheWrite = Overwrite(@, rep, "cache_creation_input_tokens")]
                u2 == [u1 EXCEPT !.totalTokens = TotalTokens(u1)]
            IN Step([out EXCEPT !.stopReason = r.value, !.usage = u2], <<>>)

OnMessageDelta(out, ev) ==
    LET r == IF ev.delta.stop_reason # NoReason THEN mapStopReason(ev.delta.stop_reason)
             ELSE Returned(out.stopReason)
    IN IF r.threw THEN Raise(out, <<>>, r.message)
       ELSE LET rep == ev.usage
                u1 == [out.usage EXCEPT
                          !.input = Overwrite(@, rep, "input_tokens"),
                          !.output = Overwrite(@, rep, "output_tokens"),
                          !.cacheRead = Overwrite(@, rep, "cache_read_input_tokens"),
                          !.cacheWrite = Overwrite(@, rep, "cache_creation_input_tokens")]
                u2 == [u1 EXCEPT !.totalTokens = TotalTokens(u1)]
            IN Step([out EXCEPT !.stopReason = r.value,
                                !.usage = calculateCost(model, u2)], <<>>)

\* the body of the for-await loop
OnEvent(out, ev) ==
    CASE ev.type = "message_start" -> OnMessageStart(out, ev)
      [] ev.type = "content_block_start" -> OnBlockStart(out, ev)
      [] ev.type = "content_block_delta" -> OnBlockDelta(out, ev)
      [] ev.type = "content_block_stop" -> OnBlockStop(out, ev)
      [] ev.type = "message_delta" -> OnMessageDelta(out, ev)
      [] OTHER -> Step(out, <<>>)

\* after the loop: the vendor stream ended without an exception
\* faulty variant: the done event pushed before the checks
AfterLoopDoneFirst(out, signalAborted) ==
    IF signalAborted THEN Raise(out, <<DoneEvent(out.stopReason)>>, <<"Request was aborted">>)
    ELSE IF out.stopReason \in {"aborted", "error"}
         THEN Raise(out, <<DoneEvent(out.stopReason)>>, <<"An unknown error occurred">>)
    ELSE Step(out, <<DoneEvent(out.stopReason)>>)

\* faulty variant: the signal not consulted after the loop
AfterLoopIgnoresSignal(out, signalAborted) ==
    IF out.stopReason \in {"aborted", "error"}
    THEN Raise(out, <<>>, <<"An unknown error occurred">>)
    ELSE Step(out, <<DoneEvent(out.stopReason)>>)

\* faulty variant: the stored stop reason not consulted after the loop
AfterLoopNoReasonCheck(out, signalAborted) ==
    IF signalAborted THEN Raise(out, <<>>, <<"Request was aborted">>)
    ELSE Step(out, <<DoneEvent(out.stopReason)>>)

\* faulty variant: a recognized stop reason other than "stop" taken for a failure
AfterLoopOnlyStop(out, signalAborted) ==
    IF signalAborted THEN Raise(out, <<>>, <<"Request was aborted">>)
    ELSE IF out.stopReason # "stop"
         THEN Raise(out, <<>>, <<"An unknown error occurred">>)
    ELSE Step(out, <<DoneEvent(out.stopReason)>>)

AfterLoop(out, signalAborted) ==
    IF signalAborted THEN Raise(out, <<>>, <<"Request was aborted">>)
    ELSE IF out.stopReason \in {"aborted", "error"}
         THEN Raise(out, <<>>, <<"An unknown error occurred">>)
    ELSE Step(out, <<DoneEvent(out.stopReason)>>)

\* the catch block: the output it leaves
\* faulty variant: the position tags are left on the blocks
CaughtKeepsIndex(out, message, signalAborted) ==
    [ role |-> out.role,
      content |-> out.content,
      usage |-> out.usage,
      stopReason |-> IF signalAborted THEN "aborted" ELSE "error",
      errorMessage |-> message ]

Caught(out, message, signalAborted) ==
    [ role |-> out.role,
      content |-> [i \in 1..Len(out.content) |->
                      IF Has(out.content[i], "index") THEN Delete(out.content[i], "index")
                      ELSE out.content[i]],
      usage |-> out.usage,
      stopReason |-> IF signalAborted THEN "aborted" ELSE "error",
      errorMessage |-> message ]

\* ------------------------------------------------------------------------
\* Actions
\* ------------------------------------------------------------------------

Init ==
    /\ pc = "init"
    /\ StreamIdle
    /\ output = InitialOutput
    /\ env \in [project : BOOLEAN, adc : BOOLEAN]
    /\ ConvertIdle
    /\ RequestIdle

\* The effect of a step r of the try block.  An exception takes the catch
\* block, which pushes the error event and ends the stream; a step that
\* pushed the done event ends the stream too.
Settle(r, last) ==
    IF r.threw
    THEN LET out == Caught(r.output, r.message, aborted) IN
         /\ output' = out
         /\ events' = events \o r.pushed \o <<ErrorEvent(out.stopReason)>>
         /\ ended' = TRUE
         /\ pc' = "done"
    ELSE /\ output' = r.output
         /\ events' = events \o r.pushed
         /\ ended' = last
         /\ pc' = IF last THEN "done" ELSE "loop"

\* streamVertexClaude up to the first await of the vendor stream
Call ==
    /\ pc = "init"
    /\ Settle(OnCall(output, env.project, env.adc), FALSE)
    /\ UNCHANGED <<aborted, event, consumed, env, taken, convertVars, requestVars>>

\* one iteration of the loop that would start only once the consumer has
\* taken all but one of the events pushed so far
ConsumeWhenTaken(ev) ==
    /\ Len(events) - taken <= 1
    /\ consumed < MaxConsumed
    /\ event' = ev
    /\ consumed' = consumed + 1
    /\ Settle(OnEvent(output, ev), FALSE)
    /\ UNCHANGED <<aborted, env, taken, convertVars, requestVars>>

\* one iteration of the loop, for the vendor event ev
Consume(ev) ==
    /\ consumed < MaxConsumed
    /\ event' = ev
    /\ consumed' = consumed + 1
    /\ Settle(OnEvent(output, ev), FALSE)
    /\ UNCHANGED <<aborted, env, taken, convertVars, requestVars>>

MessageStart ==
    /\ pc = "loop"
    /\ \E ev \in MessageStarts : Consume(ev)

BlockStart ==
    /\ pc = "loop"
    /\ \E ev \in BlockStarts : Consume(ev)

BlockDelta ==
    /\ pc = "loop"
    /\ \E ev \in BlockDeltas : Consume(ev)

BlockStop ==
    /\ pc = "loop"
    /\ \E ev \in BlockStops : Consume(ev)

MessageDelta ==
    /\ pc = "loop"
    /\ \E ev \in MessageDeltas : Consume(ev)

OtherEvent ==
    /\ pc = "loop"
    /\ \E ev \in OtherEvents : Consume(ev)

\* the vendor stream raises instead of delivering the next event
VendorThrows ==
    /\ pc = "loop"
    /\ \E message \in VendorErrors : Settle(Raise(output, <<>>, message), FALSE)
    /\ UNCHANGED <<aborted, event, consumed, env, taken, convertVars, requestVars>>

\* the vendor stream is exhausted: the code after the loop
EndOfStream ==
    /\ pc = "loop"
    /\ Settle(AfterLoop(output, aborted), TRUE)
    /\ UNCHANGED <<aborted, event, consumed, env, taken, convertVars, requestVars>>

\* the caller aborts the signal while the call is running
Abort ==
    /\ pc # "done"
    /\ ~aborted
    /\ aborted' = TRUE
    /\ UNCHANGED <<pc, output, events, ended, event, consumed, env, taken, convertVars, requestVars>>

Next ==
    \/ Call
    \/ MessageStart
    \/ BlockStart
    \/ BlockDelta
    \/ BlockStop
    \/ MessageDelta
    \/ OtherEvent
    \/ VendorThrows
    \/ EndOfStream
    \/ Abort

Spec == Init /\ [][Next]_vars

\* The consumer of the stream takes the next event that was pushed.  The
\* translator takes no part in it: it never reads what the consumer has taken.
Take ==
    /\ taken < Len(events)
    /\ taken' = taken + 1
    /\ UNCHANGED <<pc, aborted, output, events, ended, event, consumed, env,
                   convertVars, requestVars>>

ConsumerNext ==
    \/ Next
    \/ Take

\* the call together with a consumer that takes the events at its own pace
ConsumerSpec == Init /\ [][ConsumerNext]_vars

\* The call runs once it is made, and the vendor stream, once open, ends or
\* fails: it does not stay silent forever.
FairSpec ==
    /\ Spec
    /\ WF_vars(Call)
    /\ WF_vars(EndOfStream \/ VendorThrows)

\* ------------------------------------------------------------------------
\* Properties
\* ------------------------------------------------------------------------

Last(q) == q[Len(q)]

TerminalTypes == {"done", "error"}

TerminalPositions == { i \in 1..Len(events) : events[i].type \in TerminalTypes }

\* the positions of the events about the block stored at position p (from 1)
EventsOf(p) ==
    { i \in 1..Len(events) : Has(events[i], "contentIndex") /\ events[i].contentIndex = p - 1 }

\* C1: a stream carries at most one terminal event (done or error), the
\* terminal event is the last event pushed, the stream is ended exactly when
\* the terminal event has been pushed, and a call that has finished, however
\* it finished, has pushed exactly one.
OneTerminalEvent ==
    /\ Cardinality(TerminalPositions) <= 1
    /\ TerminalPositions \subseteq {Len(events)}
    /\ ended <=> TerminalPositions # {}
    /\ pc = "done" <=> ended

\* a call that failed in the middle of the vendor stream
OneTerminalEventWitness ==
    /\ pc = "done"
    /\ consumed >= 2
    /\ Len(events) >= 3
    /\ Last(events).type = "error"

\* C2: the events about a block are one start, then deltas, then at most one
\* end, all of the kind of the block; every block has its start event and
\* every block event is about a block of the output.
BlockLifecycle ==
    /\ \A i \in 1..Len(events) :
          Has(events[i], "contentIndex") => events[i].contentIndex + 1 \in 1..Len(output.content)
    /\ \A p \in 1..Len(output.content) :
          LET kind == IF output.content[p].type = "toolCall" THEN "toolcall"
                      ELSE output.content[p].type
              mine == EventsOf(p)
              starts == { i \in mine : events[i].type = kind \o "_start" }
              deltas == { i \in mine : events[i].type = kind \o "_delta" }
              ends == { i \in mine : events[i].type = kind \o "_end" }
          IN /\ mine = starts \cup deltas \cup ends
             /\ Cardinality(starts) = 1
             /\ Cardinality(ends) <= 1
             /\ \A i \in starts, j \in deltas \cup ends : i < j
             /\ \A i \in deltas, j \in ends : i < j

\* a block was started, received a delta and was stopped, and then a delta
\* carrying the tag of the stopped block arrived
BlockLifecycleWitness ==
    /\ pc = "loop"
    /\ Len(output.content) = 1
    /\ Len(events) = 4
    /\ events[3].type = "text_delta"
    /\ events[4].type = "text_end"
    /\ event.type = "content_block_delta"
    /\ event.delta.type = "text_delta"

\* C3: a call that ends with the signal set ends with an error event of
\* reason aborted, output stop reason aborted, and no done event; a call that
\* ends in an error with the signal not set has reason error.
AbortDistinguished ==
    pc = "done" =>
        /\ aborted =>
              /\ Last(events).type = "error"
              /\ Last(events).reason = "aborted"
              /\ output.stopReason = "aborted"
              /\ \A i \in 1..Len(events) : events[i].type # "done"
        /\ (~aborted /\ Last(events).type = "error") =>
              /\ Last(events).reason = "error"
              /\ output.stopReason = "error"

\* the vendor stream reported a normal end of turn, but the signal was set
AbortDistinguishedWitness ==
    /\ pc = "done"
    /\ aborted
    /\ event.type = "message_delta"
    /\ event.delta.stop_reason = "end_turn"
    /\ output.errorMessage = <<"Request was aborted">>

\* C4: a done event carries stop, length or toolUse; when the vendor stream
\* ends with the stored stop reason error or aborted, the call ends with an
\* error event and no done event.
DoneReasonRestricted ==
    /\ [](\A i \in 1..Len(events) :
            events[i].type = "done" => events[i].reason \in {"stop", "length", "toolUse"})
    /\ [][(pc = "loop" /\ pc' = "done" /\ output.stopReason \in {"error", "aborted"}) =>
            /\ Last(events').type = "error"
            /\ \A i \in 1..Len(events') : events'[i].type # "done"]_vars

\* the vendor reported a refusal and the stream then ended normally
DoneReasonRestrictedWitness ==
    /\ pc = "done"
    /\ ~aborted
    /\ event.type = "message_delta"
    /\ event.delta.stop_reason = "refusal"
    /\ output.errorMessage = <<"An unknown error occurred">>

\* a step of the loop that consumed a vendor event of the given type
Consumed(type) == consumed' = consumed + 1 /\ event'.type = type

\* the counter that a usage report sets: the reported value when the report
\* has the field, the previous value otherwise
Replaced(old, report, field) == IF field \in DOMAIN report THEN report[field] ELSE old

UsageReplaced(old, new, report) ==
    /\ new.input = Replaced(old.input, report, "input_tokens")
    /\ new.output = Replaced(old.output, report, "output_tokens")
    /\ new.cacheRead = Replaced(old.cacheRead, report, "cache_read_input_tokens")
    /\ new.cacheWrite = Replaced(old.cacheWrite, report, "cache_creation_input_tokens")

TotalIsSum(u) == u.totalTokens = u.input + u.output + u.cacheRead + u.cacheWrite

\* C5 as claimed: after every message_delta each counter is the reported
\* value, or unchanged when the event does not report it, and after every
\* message_start or message_delta the total is the sum of the four counters.
UsageReplacedByEveryDelta ==
    [][/\ Consumed("message_delta") =>
             UsageReplaced(output.usage, output'.usage, event'.usage)
       /\ (Consumed("message_delta") \/ Consumed("message_start")) =>
             TotalIsSum(output'.usage)]_vars

\* C5 as amended: the counters are replaced by a message_delta whose stop
\* reason is absent or recognized; a message_delta with an unrecognized stop
\* reason fails before its usage is read and leaves the counters as they
\* were.  The total is the sum of the four counters after every message_start
\* and message_delta, and input=10, output=0 followed by a report of output=5
\* gives input=10, output=5.
UsageReplacedByAcceptedDelta ==
    [][/\ (/\ Consumed("message_delta")
           /\ event'.delta.stop_reason \in RecognizedReasons \cup {NoReason}) =>
             /\ UsageReplaced(output.usage, output'.usage, event'.usage)
             /\ (/\ output.usage.input = 10
                 /\ output.usage.output = 0
                 /\ event'.usage = [output_tokens |-> 5]) =>
                   (output'.usage.input = 10 /\ output'.usage.output = 5)
       /\ (/\ Consumed("message_delta")
           /\ event'.delta.stop_reason \notin RecognizedReasons \cup {NoReason}) =>
             output'.usage = output.usage
       /\ (Consumed("message_delta") \/ Consumed("message_start")) =>
             TotalIsSum(output'.usage)]_vars

\* message_start input=10, output=0, then message_delta output=5
UsageReplacedWitness ==
    /\ pc = "loop"
    /\ event.type = "message_delta"
    /\ event.delta.stop_reason = "end_turn"
    /\ event.usage = [output_tokens |-> 5]
    /\ output.usage.input = 10
    /\ output.usage.output = 5
    /\ output.usage.totalTokens = 15

\* C6: the classifier maps end_turn, pause_turn and stop_sequence to stop,
\* max_tokens to length, tool_use to toolUse, refusal to error, and fails,
\* naming the reason and returning nothing, for every other reason: for the
\* stop reason of the message_delta consumed last, the classifier's result is
\* the documented one and it is what the output stores.
StopReasonClassified ==
    (event.type = "message_delta" /\ event.delta.stop_reason # NoReason) =>
        LET reason == event.delta.stop_reason
            result == mapStopReason(reason)
            expected == CASE reason = "end_turn" -> "stop"
                          [] reason = "pause_turn" -> "stop"
                          [] reason = "stop_sequence" -> "stop"
                          [] reason = "max_tokens" -> "length"
                          [] reason = "tool_use" -> "toolUse"
                          [] reason = "refusal" -> "error"
                          [] OTHER -> "none"
        IN IF expected # "none"
           THEN /\ ~result.threw
                /\ result.value = expected
                /\ pc = "loop" => output.stopReason = expected
           ELSE /\ result.threw
                /\ result.value = ""
                /\ \E k \in 1..Len(result.message) : result.message[k] = reason
                /\ pc = "done"
                /\ output.stopReason \notin {"stop", "length", "toolUse"}

\* a pause_turn was classified and stored
StopReasonClassifiedWitness ==
    /\ pc = "loop"
    /\ event.type = "message_delta"
    /\ event.delta.stop_reason = "pause_turn"
    /\ output.stopReason = "stop"

\* C7: a message_delta with an unrecognized stop reason ends the call at that
\* event with a single error event and no done event; the stop reason is
\* error, or aborted when the signal is set, and the error message names the
\* unrecognized reason.
UnrecognizedReasonFails ==
    (/\ event.type = "message_delta"
     /\ event.delta.stop_reason \notin RecognizedReasons \cup {NoReason}) =>
        /\ pc = "done"
        /\ ended
        /\ Last(events).type = "error"
        /\ Cardinality({ i \in 1..Len(events) : events[i].type = "error" }) = 1
        /\ \A i \in 1..Len(events) : events[i].type # "done"
        /\ output.stopReason = IF aborted THEN "aborted" ELSE "error"
        /\ Last(events).reason = output.stopReason
        /\ output.errorMessage = <<"Unhandled stop reason: ", event.delta.stop_reason>>

\* an unrecognized reason arrived after some content, the signal not set
UnrecognizedReasonFailsWitness ==
    /\ event.type = "message_delta"
    /\ event.delta.stop_reason = "unknown"
    /\ ~aborted
    /\ Len(output.content) >= 1
    /\ Last(events).reason = "error"

\* C8 as claimed: the tolerant parser returns a mapping for every input, so
\* the arguments of every tool call, which are its results, are mappings.
ArgumentsAreMappings ==
    \A p \in 1..Len(output.content) :
        output.content[p].type = "toolCall" =>
            /\ output.content[p].arguments.k = "object"
            /\ Has(output.content[p], "partialJson") =>
                  parseStreamingJson(output.content[p].partialJson).k = "object"

\* a step that pushed the start event
StartPushed ==
    \E i \in (Len(events) + 1)..Len(events') : events'[i].type = "start"

UsageInitialized(new, report) ==
    /\ new.input = (IF "input_tokens" \in DOMAIN report THEN report.input_tokens ELSE 0)
    /\ new.output = (IF "output_tokens" \in DOMAIN report THEN report.output_tokens ELSE 0)
    /\ new.cacheRead =
          (IF "cache_read_input_tokens" \in DOMAIN report THEN report.cache_read_input_tokens ELSE 0)
    /\ new.cacheWrite =
          (IF "cache_creation_input_tokens" \in DOMAIN report
           THEN report.cache_creation_input_tokens ELSE 0)

\* C9 as claimed: the start event is pushed by the step that consumes
\* message_start, after the usage counters are set from the report.
StartOnMessageStart ==
    [][/\ StartPushed <=> Consumed("message_start")
       /\ StartPushed => UsageInitialized(output'.usage, event'.message.usage)]_vars

\* C9 as amended: the start event is pushed once, when the vendor stream is
\* opened and before any vendor event is consumed, as the first event of the
\* stream, while every usage counter is still zero; consuming message_start
\* sets the usage counters from the reported totals and pushes no event.
StartOnOpen ==
    [][/\ StartPushed <=> (pc = "init" /\ pc' = "loop")
       /\ StartPushed =>
             /\ events' = <<[type |-> "start"]>>
             /\ consumed' = 0
             /\ output'.usage.input = 0
             /\ output'.usage.output = 0
             /\ output'.usage.cacheRead = 0
             /\ output'.usage.cacheWrite = 0
             /\ output'.usage.totalTokens = 0
       /\ Consumed("message_start") =>
             /\ events' = events
             /\ UsageInitialized(output'.usage, event'.message.usage)]_vars

\* message_start was consumed after the start event had been pushed
StartOnOpenWitness ==
    /\ pc = "loop"
    /\ event.type = "message_start"
    /\ consumed = 1
    /\ events = <<[type |-> "start"]>>
    /\ output.usage.input = 10

\* block after the catch block: the same fields, the position tag removed
Stripped(before, after) ==
    /\ DOMAIN after = DOMAIN before \ {"index"}
    /\ \A f \in DOMAIN after : after[f] = before[f]

\* C10: the step that ends a call with an error event leaves every block of
\* the output in place and in order with what it had accumulated, without
\* its position tag, sets the stop reason to aborted or error and attaches
\* an error message.
ErrorCarriesPartialOutput ==
    [][(pc # "done" /\ pc' = "done" /\ Last(events').type = "error") =>
          /\ Len(output'.content) = Len(output.content)
          /\ \A p \in 1..Len(output.content) :
                Stripped(output.content[p], output'.content[p])
          /\ output'.stopReason \in {"aborted", "error"}
          /\ Last(events').reason = output'.stopReason
          /\ "errorMessage" \in DOMAIN output'
          /\ output'.errorMessage # <<>>]_vars

\* the vendor stream failed while a text block with text was still open and
\* a thinking block had been started after it
ErrorCarriesPartialOutputWitness ==
    /\ pc = "done"
    /\ Last(events).type = "error"
    /\ Len(output.content) = 2
    /\ output.content[1].type = "text"
    /\ output.content[1].text # <<>>
    /\ output.content[2].type = "thinking"
    /\ \A i \in 1..Len(events) : events[i].type # "text_end"
    /\ output.errorMessage = <<"Connection error.">>

\* C11: under FairSpec every call eventually pushes a terminal event and ends
\* the stream; and when the vendor stream ends normally, cancellation was
\* not requested and the stored stop reason is a recognized one other than a
\* refusal (stop, length, toolUse), the terminal event is done.
EventuallyTerminal ==
    /\ <>(ended /\ pc = "done" /\ Last(events).type \in TerminalTypes)
    /\ [][(/\ EndOfStream
           /\ ~aborted
           /\ output.stopReason \in {"stop", "length", "toolUse"}) =>
              /\ Last(events') = DoneEvent(output.stopReason)
              /\ ended']_vars

\* the vendor stream ended normally after reporting the stop reason tool_use
EventuallyTerminalWitness ==
    /\ pc = "done"
    /\ ended
    /\ ~aborted
    /\ event.type = "message_delta"
    /\ event.delta.stop_reason = "tool_use"
    /\ Last(events) = DoneEvent("toolUse")

\* C18: a call whose project id or credentials cannot be resolved consumes
\* nothing of the vendor stream and pushes one event only, an error event;
\* its output has no block and its error message names the precondition
\* that failed first (the project id, then the credentials).
PreconditionFailure ==
    (pc # "init" /\ ~(env.project /\ env.adc)) =>
        /\ pc = "done"
        /\ consumed = 0
        /\ event.type = "none"
        /\ Len(events) = 1
        /\ events[1].type = "error"
        /\ ended
        /\ output.content = <<>>
        /\ output.errorMessage =
              IF ~env.project THEN <<"Vertex AI requires a project ID.">>
              ELSE <<"Vertex AI requires Application Default Credentials.">>

\* a call with a project id and without credentials has failed
PreconditionFailureWitness ==
    /\ pc = "done"
    /\ env.project
    /\ ~env.adc
    /\ events = <<ErrorEvent("error")>>

\* the events pushed by a step
Pushed == SubSeq(events', Len(events) + 1, Len(events'))

\* the block events among them
PushedBlockEvents ==
    { i \in 1..Len(Pushed) : "contentIndex" \in DOMAIN Pushed[i] }

\* the position of the first block that carries the vendor tag, 0 for none
Tagged(blocks, tag) ==
    IF \E p \in 1..Len(blocks) : "index" \in DOMAIN blocks[p] /\ blocks[p].index = tag
    THEN CHOOSE p \in 1..Len(blocks) :
            /\ "index" \in DOMAIN blocks[p] /\ blocks[p].index = tag
            /\ \A q \in 1..(p - 1) : ~("index" \in DOMAIN blocks[q] /\ blocks[q].index = tag)
    ELSE 0

\* C19: no step removes or moves a block: the blocks of the output keep
\* their positions and kinds.  A content_block_start of a supported kind
\* appends one block and pushes one start event whose contentIndex is the
\* length of the sequence before the append; a start of another kind
\* appends and pushes nothing.  A delta or end event pushed for a vendor
\* event carries as contentIndex the storage position (from 0) of the block
\* that holds the vendor's tag, whatever that tag is, and that block is the
\* only one the step changes.
AppendOnly ==
    [][/\ Len(output'.content) >= Len(output.content)
       /\ \A p \in 1..Len(output.content) :
             output'.content[p].type = output.content[p].type
       /\ Len(output'.content) > Len(output.content) =>
             /\ Consumed("content_block_start")
             /\ Len(output'.content) = Len(output.content) + 1
             /\ \A p \in 1..Len(output.content) : output'.content[p] = output.content[p]
       /\ Consumed("content_block_start") =>
             IF event'.content_block.type \in {"text", "thinking", "tool_use"}
             THEN /\ output'.content = Append(output.content, NewBlock(event'))
                  /\ Len(Pushed) = 1
                  /\ Pushed[1].type = EventKind(NewBlock(event')) \o "_start"
                  /\ Pushed[1].contentIndex = Len(output.content)
             ELSE /\ output'.content = output.content
                  /\ Pushed = <<>>
       /\ (Consumed("content_block_delta") \/ Consumed("content_block_stop")) =>
             \A i \in PushedBlockEvents :
                LET p == Tagged(output.content, event'.index) IN
                /\ p # 0
                /\ Pushed[i].contentIndex = p - 1
                /\ \A q \in 1..Len(output.content) :
                      q # p => output'.content[q] = output.content[q]]_vars

\* a text block started with the vendor tag 1 after a block of an
\* unsupported kind was skipped: it is stored first, its start and its
\* delta both carry the contentIndex 0, and its end does too
AppendOnlyWitness ==
    /\ pc = "loop"
    /\ Len(output.content) = 1
    /\ Len(events) = 4
    /\ events[2] = BlockStartEvent("text", 0)
    /\ events[3].type = "text_delta"
    /\ events[3].contentIndex = 0
    /\ events[4].type = "text_end"
    /\ events[4].contentIndex = 0
    /\ event.type = "content_block_stop"
    /\ event.index = 1

\* the input fragments pushed for the block stored at position p (from 1)
\* among the first n events, concatenated in the order of the events
RECURSIVE Fragments(_, _)
Fragments(p, n) ==
    IF n = 0 THEN <<>>
    ELSE Fragments(p, n - 1) \o
         (IF events[n].type = "toolcall_delta" /\ events[n].contentIndex = p - 1
          THEN events[n].delta ELSE <<>>)

\* the tool-call block at position p has been stopped
ToolcallEnded(p) ==
    \E i \in 1..Len(events) : events[i] = ToolcallEndEvent(p - 1)

\* C20: the toolcall_delta event pushed for an input delta carries that
\* delta's fragment and nothing else; the raw buffer of a tool-call block,
\* while the block has one, is the concatenation in arrival order of the
\* fragments received for the block, and the arguments of the block are the
\* tolerant parse of all the fragments received so far; a block has lost
\* its raw buffer exactly when it has been stopped, and its arguments are
\* then the tolerant parse of all its fragments (of the empty text when
\* there was none, which is the empty mapping).
ArgumentsFollowBuffer ==
    /\ [](\A p \in 1..Len(output.content) :
            LET block == output.content[p] IN
            block.type = "toolCall" =>
               /\ block.arguments = parseStreamingJson(Fragments(p, Len(events)))
               /\ "partialJson" \in DOMAIN block =>
                     block.partialJson = Fragments(p, Len(events))
               /\ "partialJson" \in DOMAIN block <=> ~ToolcallEnded(p)
               /\ Fragments(p, Len(events)) = <<>> => block.arguments = EmptyObj)
    /\ [][(/\ Consumed("content_block_delta")
           /\ event'.delta.type = "input_json_delta"
           /\ Tagged(output.content, event'.index) # 0
           /\ output.content[Tagged(output.content, event'.index)].type = "toolCall") =>
              Pushed = <<BlockDeltaEvent("toolcall", Tagged(output.content, event'.index) - 1,
                                         event'.delta.partial_json)>>]_vars

\* a tool call received the fragments {"a":1 and } and was stopped: its
\* arguments are the parse of {"a":1}, which neither fragment alone gives
ArgumentsFollowBufferWitness ==
    /\ pc = "loop"
    /\ Len(output.content) = 1
    /\ output.content[1].type = "toolCall"
    /\ "partialJson" \notin DOMAIN output.content[1]
    /\ Fragments(1, Len(events)) = <<"{", "\"a\"", ":", "1", "}">>
    /\ output.content[1].arguments = Obj(<< <<"a", JNum>> >>)
    /\ output.content[1].arguments # parseStreamingJson(<<"}">>)
    /\ ToolcallEnded(1)

\* ------------------------------------------------------------------------
\* Text values of the conversation
\* ------------------------------------------------------------------------

\* A text of the conversation is a sequence of UTF-16 code units.
\* the code units String.prototype.trim removes: white space and line
\* terminators
WhiteSpace ==
    {9, 10, 11, 12, 13, 32, 160, 5760, 8232, 8233, 8239, 8287, 12288, 65279}
        \cup (8192..8202)

RECURSIVE trimStart(_)
trimStart(text) ==
    IF text # <<>> /\ Head(text) \in WhiteSpace THEN trimStart(Tail(text)) ELSE text

RECURSIVE trimEnd(_)
trimEnd(text) ==
    IF text # <<>> /\ text[Len(text)] \in WhiteSpace
    THEN trimEnd(SubSeq(text, 1, Len(text) - 1))
    ELSE text

\* text.trim()
trim(text) == trimEnd(trimStart(text))

\* the code units \uD800 to \uDFFF
Surrogates == 55296..57343

\* text.replace(/[\uD800-\uDFFF]/g, "\uFFFD")
sanitizeSurrogates(text) ==
    [n \in 1..Len(text) |-> IF text[n] \in Surrogates THEN 65533 ELSE text[n]]

\* texts.join("\n")
RECURSIVE join(_)
join(texts) ==
    IF texts = <<>> THEN <<>>
    ELSE IF Len(texts) = 1 THEN texts[1]
    ELSE texts[1] \o <<10>> \o join(Tail(texts))

\* "(see attached image)"
SeeAttachedImage ==
    <<40, 115, 101, 101, 32, 97, 116, 116, 97, 99, 104, 101, 100, 32, 105, 109, 97, 103, 101, 41>>

\* A content that is a string and a content that is an array are told apart
\* by the program (typeof, Array.isArray): a content is one or the other,
\* and says which.
Str(text) == [kind |-> "string", text |-> text]

List(parts) == [kind |-> "array", parts |-> parts]

\* ------------------------------------------------------------------------
\* Conversations given to convertMessages
\* ------------------------------------------------------------------------

\* turns of one conversation
MaxTurns == 3

\* "h", " ", "", and the surrogate pair U+D83D U+DE00 followed by a lone
\* high surrogate
Texts == { <<104>>, <<32>>, <<>>, <<55357, 56832, 55357>> }

TextPart(text) == [type |-> "text", text |-> text]

ImagePart == [type |-> "image", mimeType |-> "image/png", data |-> "iVBO"]

ThinkingPart(thinking) == [type |-> "thinking", thinking |-> thinking]

SignedThinkingPart(thinking, signature) ==
    [type |-> "thinking", thinking |-> thinking, thinkingSignature |-> signature]

ToolCallPart == [type |-> "toolCall", id |-> "toolu_1", name |-> "tool", arguments |-> EmptyObj]

UserPartLists ==
    { <<TextPart(<<104>>), ImagePart>>,
      <<TextPart(<<32>>), ImagePart>>,
      <<ImagePart, TextPart(<<104, 55357>>)>>,
      <<TextPart(<<32>>)>>,
      <<>> }

UserTurns ==
    { [role |-> "user", content |-> Str(t)] : t \in Texts }
    \cup { [role |-> "user", content |-> List(parts)] : parts \in UserPartLists }

AssistantPartLists ==
    { <<TextPart(<<104>>), SignedThinkingPart(<<116>>, <<115>>), ToolCallPart>>,
      <<SignedThinkingPart(<<116>>, <<32>>), TextPart(<<32>>), SignedThinkingPart(<<32>>, <<115>>)>>,
      <<ThinkingPart(<<116, 55357>>), SignedThinkingPart(<<116>>, <<>>)>>,
      <<TextPart(<<32>>)>> }

AssistantTurns ==
    { [role |-> "assistant", content |-> List(parts)] : parts \in AssistantPartLists }

ToolResultTurn(id, parts, isError) ==
    [role |-> "toolResult", toolCallId |-> id, content |-> List(parts), isError |-> isError]

ToolResultTurns ==
    { ToolResultTurn("toolu_1", <<TextPart(<<104>>)>>, FALSE),
      ToolResultTurn("toolu_2", <<ImagePart>>, TRUE),
      ToolResultTurn("toolu_3", <<TextPart(<<104>>), TextPart(<<104, 55357>>)>>, FALSE) }

Turns == UserTurns \cup AssistantTurns \cup ToolResultTurns

Conversations == UNION { [1..n -> Turns] : n \in 0..MaxTurns }

\* model descriptors with and without the image input modality
ConvertModels ==
    { Model({"text", "image"}, TRUE, 64000, SonnetCost),
      Model({"text"}, TRUE, 64000, SonnetCost) }

\* ------------------------------------------------------------------------
\* convertMessages
\* ------------------------------------------------------------------------

TextBlock(text) == [type |-> "text", text |-> text]

ImageBlock(part) ==
    [type |-> "image",
     source |-> [type |-> "base64", media_type |-> part.mimeType, data |-> part.data]]

\* content.map of the user branch and of convertContentBlocks
ContentBlock(part) ==
    IF part.type = "text" THEN TextBlock(sanitizeSurrogates(part.text)) ELSE ImageBlock(part)

convertContentBlocks(content) ==
    IF \A n \in 1..Len(content) : content[n].type # "image"
    THEN Str(sanitizeSurrogates(join([n \in 1..Len(content) |-> content[n].text])))
    ELSE LET blocks == [n \in 1..Len(content) |-> ContentBlock(content[n])]
         IN IF \A n \in 1..Len(blocks) : blocks[n].type # "text"
            THEN List(<<TextBlock(SeeAttachedImage)>> \o blocks)
            ELSE List(blocks)

\* the user branch: the messages pushed for one user turn
\* faulty variant: a string content pushed without looking at it
UserMessagesUnchecked(msg, mdl) ==
    IF msg.content.kind = "string"
    THEN << [role |-> "user", content |-> Str(sanitizeSurrogates(msg.content.text))] >>
    ELSE LET blocks == [n \in 1..Len(msg.content.parts) |-> ContentBlock(msg.content.parts[n])]
             NotImage(b) == b.type # "image"
             HasText(b) == b.type = "text" => Len(trim(b.text)) > 0
             supported == IF "image" \notin mdl.input THEN SelectSeq(blocks, NotImage) ELSE blocks
             filteredBlocks == SelectSeq(supported, HasText)
         IN IF Len(filteredBlocks) > 0
            THEN << [role |-> "user", content |-> List(filteredBlocks)] >>
            ELSE <<>>

UserMessages(msg, mdl) ==
    IF msg.content.kind = "string"
    THEN IF trim(msg.content.text) # <<>>
         THEN << [role |-> "user", content |-> Str(sanitizeSurrogates(msg.content.text))] >>
         ELSE <<>>
    ELSE LET blocks == [n \in 1..Len(msg.content.parts) |-> ContentBlock(msg.content.parts[n])]
             NotImage(b) == b.type # "image"
             HasText(b) == b.type = "text" => Len(trim(b.text)) > 0
             supported == IF "image" \notin mdl.input THEN SelectSeq(blocks, NotImage) ELSE blocks
             filteredBlocks == SelectSeq(supported, HasText)
         IN IF Len(filteredBlocks) > 0
            THEN << [role |-> "user", content |-> List(filteredBlocks)] >>
            ELSE <<>>

\* thinkingSignature?.trim() is truthy
Signed(part) == Has(part, "thinkingSignature") /\ trim(part.thinkingSignature) # <<>>

\* the assistant branch: the blocks pushed for one part of the turn
\* faulty variant: the signature looked at without trimming it
AssistantBlocksUntrimmedSignature(part) ==
    CASE part.type = "text" /\ trim(part.text) # <<>> ->
            << TextBlock(sanitizeSurrogates(part.text)) >>
      [] part.type = "thinking" /\ trim(part.thinking) # <<>> ->
            IF Has(part, "thinkingSignature") /\ part.thinkingSignature # <<>>
            THEN << [type |-> "thinking",
                     thinking |-> sanitizeSurrogates(part.thinking),
                     signature |-> part.thinkingSignature] >>
            ELSE << TextBlock(sanitizeSurrogates(part.thinking)) >>
      [] part.type = "toolCall" ->
            << [type |-> "tool_use", id |-> part.id, name |-> part.name, input |-> part.arguments] >>
      [] OTHER -> <<>>

AssistantBlocks(part) ==
    CASE part.type = "text" /\ trim(part.text) # <<>> ->
            << TextBlock(sanitizeSurrogates(part.text)) >>
      [] part.type = "thinking" /\ trim(part.thinking) # <<>> ->
            IF Signed(part)
            THEN << [type |-> "thinking",
                     thinking |-> sanitizeSurrogates(part.thinking),
                     signature |-> part.thinkingSignature] >>
            ELSE << TextBlock(sanitizeSurrogates(part.thinking)) >>
      [] part.type = "toolCall" ->
            << [type |-> "tool_use", id |-> part.id, name |-> part.name, input |-> part.arguments] >>
      [] OTHER -> <<>>

\* the blocks of the parts of an assistant turn, in the order of the parts
RECURSIVE AssistantContent(_)
AssistantContent(parts) ==
    IF parts = <<>> THEN <<>>
    ELSE AssistantBlocks(Head(parts)) \o AssistantContent(Tail(parts))

AssistantMessages(msg) ==
    LET blocks == AssistantContent(msg.content.parts)
    IN IF Len(blocks) > 0 THEN << [role |-> "assistant", content |-> List(blocks)] >> ELSE <<>>

ToolResultBlock(msg) ==
    [type |-> "tool_result",
     tool_use_id |-> msg.toolCallId,
     content |-> convertContentBlocks(msg.content.parts),
     is_error |-> msg.isError]

\* the value of j after the while loop that collects the tool results
\* following messages[i] (positions count from 1)
\* faulty variant: the following tool results not collected
RunEndNoCollect(msgs, i) == i + 1

RECURSIVE RunEnd(_, _)
RunEnd(msgs, i) ==
    IF i + 1 <= Len(msgs) /\ msgs[i + 1].role = "toolResult" THEN RunEnd(msgs, i + 1) ELSE i + 1

\* the toolResult branch: the message pushed for the turns i to j - 1
ToolResultsMessage(msgs, i, j) ==
    [role |-> "user",
     content |-> List([n \in 1..(j - i) |-> ToolResultBlock(msgs[i + n - 1])])]

\* r[f] = v
SetField(r, f, v) == [x \in DOMAIN r \cup {f} |-> IF x = f THEN v ELSE r[x]]

Ephemeral == [type |-> "ephemeral"]

\* the cache annotation of the last message
\* faulty variant: the first block of the last message annotated
CacheControlledFirst(ps) ==
    IF Len(ps) > 0 /\ ps[Len(ps)].role = "user" /\ ps[Len(ps)].content.kind = "array"
    THEN LET parts == ps[Len(ps)].content.parts IN
         IF Len(parts) > 0 /\ parts[1].type \in {"text", "image", "tool_result"}
         THEN [ps EXCEPT ![Len(ps)].content.parts[1] = SetField(@, "cache_control", Ephemeral)]
         ELSE ps
    ELSE ps

CacheControlled(ps) ==
    IF Len(ps) > 0 /\ ps[Len(ps)].role = "user" /\ ps[Len(ps)].content.kind = "array"
    THEN LET parts == ps[Len(ps)].content.parts IN
         IF Len(parts) > 0 /\ parts[Len(parts)].type \in {"text", "image", "tool_result"}
         THEN [ps EXCEPT ![Len(ps)].content.parts[Len(parts)] =
                             SetField(@, "cache_control", Ephemeral)]
         ELSE ps
    ELSE ps

\* convertMessages is called with a conversation and a model
ConvertInit ==
    /\ pc = "convert"
    /\ messages \in Conversations
    /\ model \in ConvertModels
    /\ params = <<>>
    /\ msgIndex = 1
    /\ StreamIdle
    /\ output = InitialOutput
    /\ env = [project |-> TRUE, adc |-> TRUE]
    /\ RequestIdle

\* one iteration of the loop, on a user turn
ConvertUser ==
    /\ pc = "convert"
    /\ msgIndex <= Len(messages)
    /\ messages[msgIndex].role = "user"
    /\ params' = params \o UserMessages(messages[msgIndex], model)
    /\ msgIndex' = msgIndex + 1
    /\ UNCHANGED <<pc, messages, model, streamVars, requestVars>>

\* one iteration of the loop, on an assistant turn
ConvertAssistant ==
    /\ pc = "convert"
    /\ msgIndex <= Len(messages)
    /\ messages[msgIndex].role = "assistant"
    /\ params' = params \o AssistantMessages(messages[msgIndex])
    /\ msgIndex' = msgIndex + 1
    /\ UNCHANGED <<pc, messages, model, streamVars, requestVars>>

\* one iteration of the loop, on a toolResult turn: the turn and the
\* toolResult turns that follow it, and i = j - 1 before the i++ of the loop
ConvertToolResults ==
    /\ pc = "convert"
    /\ msgIndex <= Len(messages)
    /\ messages[msgIndex].role = "toolResult"
    /\ LET j == RunEnd(messages, msgIndex) IN
          /\ params' = Append(params, ToolResultsMessage(messages, msgIndex, j))
          /\ msgIndex' = j
    /\ UNCHANGED <<pc, messages, model, streamVars, requestVars>>

\* after the loop: the cache annotation, and the return
AddCacheControl ==
    /\ pc = "convert"
    /\ msgIndex > Len(messages)
    /\ params' = CacheControlled(params)
    /\ pc' = "converted"
    /\ UNCHANGED <<messages, model, msgIndex, streamVars, requestVars>>

ConvertNext ==
    \/ ConvertUser
    \/ ConvertAssistant
    \/ ConvertToolResults
    \/ AddCacheControl

ConvertSpec == ConvertInit /\ [][ConvertNext]_vars

\* ------------------------------------------------------------------------
\* Properties of convertMessages
\* ------------------------------------------------------------------------

\* the k-th smallest member of a set of numbers
Nth(S, k) == CHOOSE x \in S : Cardinality({ y \in S : y < x }) = k - 1

IsToolResult(msgs, n) == n \in 1..Len(msgs) /\ msgs[n].role = "toolResult"

\* the positions where a maximal run of toolResult turns starts
RunStarts(msgs) ==
    { n \in 1..Len(msgs) : IsToolResult(msgs, n) /\ ~IsToolResult(msgs, n - 1) }

\* the length of the maximal run that starts at n
RunLength(msgs, n) ==
    Cardinality({ m \in n..Len(msgs) : \A x \in n..m : IsToolResult(msgs, x) })

\* the positions of the vendor messages made of tool_result blocks
ToolResultMessages(ps) ==
    { n \in 1..Len(ps) :
        /\ ps[n].role = "user"
        /\ ps[n].content.kind = "array"
        /\ \E x \in 1..Len(ps[n].content.parts) : ps[n].content.parts[x].type = "tool_result" }

\* a block without its cache annotation
Unmarked(block) ==
    IF "cache_control" \in DOMAIN block
    THEN [x \in DOMAIN block \ {"cache_control"} |-> block[x]]
    ELSE block

\* the vendor message m holds one tool_result block for each of the turns
\* n, n + 1, ... of msgs, len of them, in that order, and nothing else
HoldsRun(m, msgs, n, len) ==
    /\ m.role = "user"
    /\ m.content.kind = "array"
    /\ Len(m.content.parts) = len
    /\ \A x \in 1..len :
          LET block == Unmarked(m.content.parts[x])
              turn == msgs[n + x - 1]
          IN /\ block.type = "tool_result"
             /\ block.tool_use_id = turn.toolCallId
             /\ block.is_error = turn.isError
             /\ block.content = convertContentBlocks(turn.content.parts)

\* C12: the iteration that meets a toolResult turn pushes exactly one vendor
\* user message, which holds one tool_result block for each turn of the
\* maximal run that starts there, in the order of the turns, and the loop
\* goes on at the first turn after the run; any other iteration goes on at
\* the next turn.  In the converted list the messages made of tool_result
\* blocks are, in order, the maximal runs of the conversation: as many
\* messages as runs, each with as many blocks as its run has turns.
ToolResultsCoalesced ==
    /\ [][(pc = "convert" /\ msgIndex <= Len(messages)) =>
            IF messages[msgIndex].role = "toolResult"
            THEN /\ msgIndex' = msgIndex + RunLength(messages, msgIndex)
                 /\ ~IsToolResult(messages, msgIndex')
                 /\ Len(params') = Len(params) + 1
                 /\ SubSeq(params', 1, Len(params)) = params
                 /\ HoldsRun(params'[Len(params')], messages, msgIndex,
                             RunLength(messages, msgIndex))
            ELSE /\ msgIndex' = msgIndex + 1
                 /\ ToolResultMessages(params') = ToolResultMessages(params)]_vars
    /\ [](pc = "converted" =>
            /\ Cardinality(ToolResultMessages(params)) = Cardinality(RunStarts(messages))
            /\ \A k \in 1..Cardinality(RunStarts(messages)) :
                  HoldsRun(params[Nth(ToolResultMessages(params), k)], messages,
                           Nth(RunStarts(messages), k),
                           RunLength(messages, Nth(RunStarts(messages), k))))

\* two tool results followed by an assistant turn were converted: one
\* message of two tool_result blocks, then the assistant message
ToolResultsCoalescedWitness ==
    /\ pc = "converted"
    /\ Len(messages) = 3
    /\ messages[1].role = "toolResult"
    /\ messages[2].role = "toolResult"
    /\ messages[1].toolCallId # messages[2].toolCallId
    /\ messages[3].role = "assistant"
    /\ Len(params) = 2
    /\ Len(params[1].content.parts) = 2
    /\ params[2].role = "assistant"

\* the blocks of the list ps of vendor messages that carry a cache
\* annotation, each as <<message, part>>, and <<message, part, inner>> for a
\* block inside the content of a tool_result block
CacheMarks(ps) ==
    LET Parts(m) == IF ps[m].content.kind = "array" THEN ps[m].content.parts ELSE <<>>
        Inner(m, x) ==
            IF Parts(m)[x].type = "tool_result" /\ Parts(m)[x].content.kind = "array"
            THEN Parts(m)[x].content.parts
            ELSE <<>>
    IN UNION { { <<m, x>> : x \in { x \in 1..Len(Parts(m)) :
                                      "cache_control" \in DOMAIN Parts(m)[x] } }
               \cup UNION { { <<m, x, y>> : y \in { y \in 1..Len(Inner(m, x)) :
                                      "cache_control" \in DOMAIN Inner(m, x)[y] } } :
                            x \in 1..Len(Parts(m)) } :
             m \in 1..Len(ps) }

\* ps without its cache annotations on the parts of its messages
WithoutMarks(ps) ==
    [m \in 1..Len(ps) |->
        IF ps[m].content.kind = "array"
        THEN [ps[m] EXCEPT !.content.parts =
                 [x \in 1..Len(ps[m].content.parts) |-> Unmarked(ps[m].content.parts[x])]]
        ELSE ps[m]]

\* C13: no block carries a cache annotation before the loop is over, and the
\* step that ends the conversion changes nothing but annotations.  In the
\* converted list, when the last message is a user message whose content is
\* a non-empty list, the last part of that list, a text, image or
\* tool_result block, carries the ephemeral annotation and no other block
\* does; otherwise (content a string, assistant message, no message) no
\* block carries one.  The last turn [text, image] given to a model that
\* takes images has its image block annotated.
OneCacheMark ==
    /\ [](pc = "convert" => CacheMarks(params) = {})
    /\ [][pc' = "converted" => WithoutMarks(params') = params]_vars
    /\ [](pc = "converted" =>
            IF /\ Len(params) > 0
               /\ params[Len(params)].role = "user"
               /\ params[Len(params)].content.kind = "array"
               /\ Len(params[Len(params)].content.parts) > 0
            THEN LET parts == params[Len(params)].content.parts IN
                 /\ CacheMarks(params) = { <<Len(params), Len(parts)>> }
                 /\ parts[Len(parts)].cache_control = Ephemeral
                 /\ parts[Len(parts)].type \in {"text", "image", "tool_result"}
                 /\ (/\ messages[Len(messages)].role = "user"
                     /\ messages[Len(messages)].content = List(<<TextPart(<<104>>), ImagePart>>)
                     /\ "image" \in model.input) =>
                        /\ Len(parts) = 2
                        /\ parts[2].type = "image"
            ELSE CacheMarks(params) = {})

\* an assistant turn followed by the user turn [text, image] was converted
\* for a model that takes images: the image block is annotated, the text
\* block before it is not
OneCacheMarkWitness ==
    /\ pc = "converted"
    /\ Len(params) = 2
    /\ params[1].role = "assistant"
    /\ "image" \in model.input
    /\ messages[2].content = List(<<TextPart(<<104>>), ImagePart>>)
    /\ params[2].content.parts[2].type = "image"
    /\ params[2].content.parts[2].cache_control = Ephemeral
    /\ "cache_control" \notin DOMAIN params[2].content.parts[1]

\* a text that is empty or white space only
IsBlankText(text) == \A n \in 1..Len(text) : text[n] \in WhiteSpace

\* the parts of a user turn that the converter keeps for the model mdl:
\* the images when the model takes images, the texts that are not blank
KeptParts(parts, mdl) ==
    { n \in 1..Len(parts) :
        \/ parts[n].type = "image" /\ "image" \in mdl.input
        \/ parts[n].type = "text" /\ ~IsBlankText(parts[n].text) }

\* a vendor user message that is not empty
NonEmptyUserMessage(m) ==
    /\ m.role = "user"
    /\ IF m.content.kind = "string"
       THEN ~IsBlankText(m.content.text)
       ELSE /\ Len(m.content.parts) > 0
            /\ \A x \in 1..Len(m.content.parts) :
                  m.content.parts[x].type = "text" => ~IsBlankText(m.content.parts[x].text)

\* C14: the iteration on a user turn pushes nothing when the content is a
\* blank string, or a list of which no part is kept (images are kept for a
\* model that takes images, texts when they are not blank); otherwise it
\* pushes one user message, with the string, or with one block per kept
\* part and no blank text among them.  Every user message of the converted
\* list is therefore non-empty: a non-blank string, or a non-empty list
\* without a blank text block.
NoEmptyUserTurn ==
    /\ [][(/\ pc = "convert"
           /\ msgIndex <= Len(messages)
           /\ messages[msgIndex].role = "user") =>
             LET content == messages[msgIndex].content
                 omitted == IF content.kind = "string" THEN IsBlankText(content.text)
                            ELSE KeptParts(content.parts, model) = {}
             IN IF omitted THEN params' = params
                ELSE /\ Len(params') = Len(params) + 1
                     /\ SubSeq(params', 1, Len(params)) = params
                     /\ NonEmptyUserMessage(params'[Len(params')])
                     /\ params'[Len(params')].content.kind = content.kind
                     /\ content.kind = "array" =>
                           Len(params'[Len(params')].content.parts) =
                              Cardinality(KeptParts(content.parts, model))]_vars
    /\ [](\A m \in 1..Len(params) : params[m].role = "user" => NonEmptyUserMessage(params[m]))

\* the turns " ", [" ", image] and ["h", image] were converted for a model
\* that takes no image: the first two are omitted, the third keeps its text
NoEmptyUserTurnWitness ==
    /\ pc = "converted"
    /\ "image" \notin model.input
    /\ Len(messages) = 3
    /\ messages[1].content = Str(<<32>>)
    /\ messages[2].content = List(<<TextPart(<<32>>), ImagePart>>)
    /\ messages[3].content = List(<<TextPart(<<104>>), ImagePart>>)
    /\ Len(params) = 1
    /\ Len(params[1].content.parts) = 1
    /\ params[1].content.parts[1].text = <<104>>

\* the iteration of the loop is on an assistant turn
OnAssistantTurn ==
    /\ pc = "convert"
    /\ msgIndex <= Len(messages)
    /\ messages[msgIndex].role = "assistant"

\* the blocks of the message pushed by a step, none when it pushed no message
PushedBlocks ==
    IF Len(params') > Len(params) THEN params'[Len(params')].content.parts ELSE <<>>

NotEmpty(text) == text # <<>>

NotBlank(text) == ~IsBlankText(text)

Same(text) == text

\* every surrogate code unit of the text replaced by U+FFFD
SurrogatesReplaced(text) ==
    [n \in 1..Len(text) |-> IF text[n] >= 55296 /\ text[n] <= 57343 THEN 65533 ELSE text[n]]

\* What the iteration on an assistant turn pushes for the thinking parts of
\* the turn, when Present tells the contents and signatures that count and
\* Emit gives the emitted content: a thinking part whose content counts
\* gives a thinking block with its signature when it has a signature that
\* counts, a text block otherwise, at the position the part has among the
\* parts that give a block (text parts that are not blank, thinking parts
\* whose content counts, tool calls).
ThinkingEmitted(Present(_), Emit(_)) ==
    LET parts == messages[msgIndex].content.parts
        Gives(n) == CASE parts[n].type = "text" -> ~IsBlankText(parts[n].text)
                      [] parts[n].type = "thinking" -> Present(parts[n].thinking)
                      [] OTHER -> TRUE
        Position(n) == Cardinality({ m \in 1..n : Gives(m) })
    IN /\ Len(PushedBlocks) = Position(Len(parts))
       /\ \A n \in 1..Len(parts) :
             (parts[n].type = "thinking" /\ Present(parts[n].thinking)) =>
                PushedBlocks[Position(n)] =
                   IF /\ "thinkingSignature" \in DOMAIN parts[n]
                      /\ Present(parts[n].thinkingSignature)
                   THEN [type |-> "thinking",
                         thinking |-> Emit(parts[n].thinking),
                         signature |-> parts[n].thinkingSignature]
                   ELSE [type |-> "text", text |-> Emit(parts[n].thinking)]

\* the signatures of the vendor thinking blocks of the list ps
ThinkingSignatures(ps) ==
    UNION { { ps[m].content.parts[x].signature :
                x \in { x \in 1..Len(ps[m].content.parts) :
                          ps[m].content.parts[x].type = "thinking" } } :
            m \in { m \in 1..Len(ps) : ps[m].role = "assistant" } }

\* C15 as claimed: a thinking part with non-empty content is emitted as a
\* thinking block exactly when its signature is non-empty, and otherwise as
\* a text block with the same content at the same position; no thinking
\* block has an empty signature.
ThinkingNeedsNonEmptySignature ==
    /\ [][OnAssistantTurn => ThinkingEmitted(NotEmpty, Same)]_vars
    /\ [](\A signature \in ThinkingSignatures(params) : NotEmpty(signature))

\* C15 as amended: contents and signatures count when they are not blank,
\* that is not empty once white space is trimmed.  A thinking part whose
\* content is not blank is emitted as a thinking block exactly when it has
\* a signature that is not blank, and otherwise as a text block at the same
\* position; the emitted content is the content of the part with every
\* surrogate code unit replaced by U+FFFD; a thinking part whose content is
\* blank gives no block.  No thinking block has a blank signature.
ThinkingNeedsSignature ==
    /\ [][OnAssistantTurn => ThinkingEmitted(NotBlank, SurrogatesReplaced)]_vars
    /\ [](\A signature \in ThinkingSignatures(params) : NotBlank(signature))

\* two assistant turns were converted: text, signed thinking and tool call
\* give three blocks; thinking "t" with the signature " ", a blank text and
\* a signed thinking " " give the one text block "t"
ThinkingNeedsSignatureWitness ==
    /\ pc = "converted"
    /\ Len(messages) = 2
    /\ messages[1].role = "assistant"
    /\ messages[1].content =
          List(<<TextPart(<<104>>), SignedThinkingPart(<<116>>, <<115>>), ToolCallPart>>)
    /\ messages[2].role = "assistant"
    /\ messages[2].content =
          List(<<SignedThinkingPart(<<116>>, <<32>>), TextPart(<<32>>),
                 SignedThinkingPart(<<32>>, <<115>>)>>)
    /\ Len(params) = 2
    /\ params[1].content.parts[2] = [type |-> "thinking", thinking |-> <<116>>, signature |-> <<115>>]
    /\ params[2].content.parts = << [type |-> "text", text |-> <<116>>] >>

\* ------------------------------------------------------------------------
\* The request: max_tokens and thinking
\* ------------------------------------------------------------------------

\* an options object without the option in question
NoOption == [f \in {} |-> 0]

\* { ...a, ...b } for options that do not overlap
Merge(a, b) == [f \in DOMAIN a \cup DOMAIN b |-> IF f \in DOMAIN a THEN a[f] ELSE b[f]]

DefaultBudgets ==
    [minimal |-> 1024, low |-> 4096, medium |-> 10240, high |-> 20480, xhigh |-> 32768]

\* the budget of a level that has no default
FallbackBudget == 10240

MinOutputTokens == 1024

ReasoningLevels == {"minimal", "low", "medium", "high", "xhigh"}

\* the models of the table by what the request reads of them: the Opus
\* models, the Sonnet and Haiku models that reason, and the 3.5 models
RequestModels ==
    { Model({"text", "image"}, TRUE, 32000, OpusCost),
      Model({"text", "image"}, TRUE, 64000, SonnetCost),
      Model({"text", "image"}, FALSE, 8192, HaikuCost) }

MaxTokensOptions ==
    { NoOption, [maxTokens |-> 0], [maxTokens |-> 1024], [maxTokens |-> 20480],
      [maxTokens |-> 40000] }

ReasoningOptions == { NoOption } \cup { [reasoning |-> level] : level \in ReasoningLevels }

ThinkingBudgetsOptions ==
    { NoOption,
      [thinkingBudgets |-> [high |-> 2048]],
      [thinkingBudgets |-> [xhigh |-> 50000]],
      [thinkingBudgets |-> [minimal |-> 0, medium |-> 30000]] }

Options ==
    { Merge(Merge(a, b), c) :
        a \in MaxTokensOptions, b \in ReasoningOptions, c \in ThinkingBudgetsOptions }

\* options?.maxTokens || Math.floor(model.maxTokens / 3)
MaxTokens(opts, mdl) ==
    IF Has(opts, "maxTokens") /\ opts.maxTokens # 0 THEN opts.maxTokens
    ELSE mdl.maxTokens \div 3

\* options?.reasoning && model.reasoning
ReasoningEnabled(opts, mdl) == Has(opts, "reasoning") /\ mdl.reasoning

\* faulty variant: the override looked up under the level itself
thinkingBudgetByLevel(opts) ==
    LET budgetKey == opts.reasoning IN
    IF Has(opts, "thinkingBudgets") /\ Has(opts.thinkingBudgets, budgetKey)
    THEN opts.thinkingBudgets[budgetKey]
    ELSE IF Has(DefaultBudgets, opts.reasoning) THEN DefaultBudgets[opts.reasoning]
    ELSE FallbackBudget

\* customBudget ?? defaultBudgets[options.reasoning] ?? 10240
thinkingBudget(opts) ==
    LET budgetKey == IF opts.reasoning = "xhigh" THEN "high" ELSE opts.reasoning IN
    IF Has(opts, "thinkingBudgets") /\ Has(opts.thinkingBudgets, budgetKey)
    THEN opts.thinkingBudgets[budgetKey]
    ELSE IF Has(DefaultBudgets, opts.reasoning) THEN DefaultBudgets[opts.reasoning]
    ELSE FallbackBudget

\* max_tokens after the comparison with the thinking budget
\* faulty variant: a cap equal to the budget left as it is
EnsuredBelowOnly(maxTokens, budget) ==
    IF maxTokens < budget THEN budget + MinOutputTokens ELSE maxTokens

Ensured(maxTokens, budget) ==
    IF maxTokens <= budget THEN budget + MinOutputTokens ELSE maxTokens

\* streamVertexClaude is called with a model and options
RequestInit ==
    /\ pc = "params"
    /\ model \in RequestModels
    /\ options \in Options
    /\ request = <<>>
    /\ messages = <<>>
    /\ params = <<>>
    /\ msgIndex = 0
    /\ StreamIdle
    /\ output = InitialOutput
    /\ env = [project |-> TRUE, adc |-> TRUE]

\* const params = { ..., max_tokens, ... }
BuildParams ==
    /\ pc = "params"
    /\ request' = [max_tokens |-> MaxTokens(options, model)]
    /\ pc' = "thinking"
    /\ UNCHANGED <<options, streamVars, convertVars>>

\* the body of if (options?.reasoning && model.reasoning)
EnableThinking ==
    /\ pc = "thinking"
    /\ ReasoningEnabled(options, model)
    /\ request' = [max_tokens |-> Ensured(request.max_tokens, thinkingBudget(options)),
                   thinking |-> [type |-> "enabled", budget_tokens |-> thinkingBudget(options)]]
    /\ pc' = "built"
    /\ UNCHANGED <<options, streamVars, convertVars>>

\* the condition is false: the request goes out without thinking
SkipThinking ==
    /\ pc = "thinking"
    /\ ~ReasoningEnabled(options, model)
    /\ pc' = "built"
    /\ UNCHANGED <<request, options, streamVars, convertVars>>

RequestNext ==
    \/ BuildParams
    \/ EnableThinking
    \/ SkipThinking

RequestSpec == RequestInit /\ [][RequestNext]_vars

\* ------------------------------------------------------------------------
\* Properties of the request
\* ------------------------------------------------------------------------

\* C16: the request that goes out has a thinking block exactly when the
\* options name a reasoning level and the model reasons; the step that adds
\* it replaces a cap that is less than or equal to the budget by the budget
\* plus 1024 and leaves a greater cap as it is, so that the cap of a request
\* with thinking is strictly greater than its budget; the cap of a request
\* without thinking is the cap computed from the options or the model.
CapAboveBudget ==
    /\ [](pc = "built" =>
            /\ "thinking" \in DOMAIN request <=>
                  ("reasoning" \in DOMAIN options /\ model.reasoning)
            /\ "thinking" \in DOMAIN request =>
                  /\ request.thinking.type = "enabled"
                  /\ request.max_tokens > request.thinking.budget_tokens)
    /\ [][(pc = "thinking" /\ pc' = "built") =>
            IF "thinking" \in DOMAIN request'
            THEN request'.max_tokens =
                    IF request.max_tokens <= request'.thinking.budget_tokens
                    THEN request'.thinking.budget_tokens + 1024
                    ELSE request.max_tokens
            ELSE request' = request]_vars

\* the cap 20480 was asked with the level high, whose budget is 20480: the
\* request goes out with the cap 21504
CapAboveBudgetWitness ==
    /\ pc = "built"
    /\ DOMAIN options = {"maxTokens", "reasoning"}
    /\ options.maxTokens = 20480
    /\ options.reasoning = "high"
    /\ "thinking" \in DOMAIN request
    /\ request.thinking.budget_tokens = 20480
    /\ request.max_tokens = 21504

\* the override of the caller for a level, read under the key the level
\* has in the override mapping; -1 when there is none
Override(key) ==
    IF "thinkingBudgets" \in DOMAIN options /\ key \in DOMAIN options.thinkingBudgets
    THEN options.thinkingBudgets[key]
    ELSE -1

HasOverride(key) ==
    "thinkingBudgets" \in DOMAIN options /\ key \in DOMAIN options.thinkingBudgets

\* the budget of a request with thinking is the override when there is one
\* under the key of the level, the default of the level otherwise
BudgetFrom(keys, defaults) ==
    (pc = "built" /\ "thinking" \in DOMAIN request) =>
        request.thinking.budget_tokens =
            IF HasOverride(keys[options.reasoning])
            THEN Override(keys[options.reasoning])
            ELSE defaults[options.reasoning]

\* the key of each level in the override mapping: xhigh reads the entry high
OverrideKeys ==
    [minimal |-> "minimal", low |-> "low", medium |-> "medium", high |-> "high", xhigh |-> "high"]

\* C17 as claimed: the budget is the override for the level, or else 1024
\* for minimal, 4096 for low, 10240 for medium, 20480 for high, and 20480
\* for xhigh too.
BudgetSharesHighDefault ==
    BudgetFrom(OverrideKeys,
               [minimal |-> 1024, low |-> 4096, medium |-> 10240, high |-> 20480, xhigh |-> 20480])

\* C17 as amended: the budget is the override for the level, xhigh reading
\* the override of high, or else 1024 for minimal, 4096 for low, 10240 for
\* medium, 20480 for high and 32768 for xhigh.
BudgetOfLevel ==
    BudgetFrom(OverrideKeys,
               [minimal |-> 1024, low |-> 4096, medium |-> 10240, high |-> 20480, xhigh |-> 32768])

\* xhigh was asked with an override mapping that has an entry xhigh and no
\* entry high: the budget is the default 32768
BudgetOfLevelWitness ==
    /\ pc = "built"
    /\ DOMAIN options = {"reasoning", "thinkingBudgets"}
    /\ options.reasoning = "xhigh"
    /\ DOMAIN options.thinkingBudgets = {"xhigh"}
    /\ "thinking" \in DOMAIN request
    /\ request.thinking.budget_tokens = 32768

\* ------------------------------------------------------------------------
\* Properties of the stream, continued
\* ------------------------------------------------------------------------

\* C21: when the terminal event (done or error) has been pushed, no block of
\* the output carries a position tag and no block carries a raw buffer,
\* whether the vendor stopped the block or not.
NoTransientFieldAtEnd ==
    pc = "done" =>
        \A p \in 1..Len(output.content) :
            /\ "index" \notin DOMAIN output.content[p]
            /\ "partialJson" \notin DOMAIN output.content[p]

\* the kind of block a delta is for
DeltaFor(type) ==
    CASE type = "text_delta" -> "text"
      [] type = "thinking_delta" -> "thinking"
      [] type = "signature_delta" -> "thinking"
      [] type = "input_json_delta" -> "toolCall"

\* the vendor event ev addresses no block in progress, or is a delta of a
\* kind that is not the kind of the block it addresses
Misaddressed(ev) ==
    /\ ev.type \in {"content_block_delta", "content_block_stop"}
    /\ \/ Tagged(output.content, ev.index) = 0
       \/ /\ ev.type = "content_block_delta"
          /\ output.content[Tagged(output.content, ev.index)].type # DeltaFor(ev.delta.type)

\* C22: the iteration that consumes a block delta or a block stop whose tag
\* is held by no block in progress, or a delta whose kind is not the kind of
\* the block that holds its tag, pushes no event, leaves the whole output
\* (blocks, usage, stop reason) as it was, does not end the stream, and
\* leaves the loop running for the next vendor event.
MisaddressedIgnored ==
    [][(pc = "loop" /\ consumed' = consumed + 1 /\ Misaddressed(event')) =>
          /\ events' = events
          /\ output' = output
          /\ ended' = ended
          /\ ~ended'
          /\ pc' = "loop"]_vars

\* a thinking block received "t", then a text delta with its tag: there is
\* no event for that delta and the block is as it was; one more vendor
\* event had been consumed without an event
MisaddressedIgnoredWitness ==
    /\ pc = "loop"
    /\ consumed = 4
    /\ event.type = "content_block_delta"
    /\ event.delta.type = "text_delta"
    /\ Len(output.content) = 1
    /\ output.content[1].type = "thinking"
    /\ "index" \in DOMAIN output.content[1]
    /\ output.content[1].index = event.index
    /\ output.content[1].thinking = <<"t">>
    /\ Len(events) = 3
    /\ events[3].type = "thinking_delta"

\* the end event of the block stored at position p (from 1) has been pushed
HasEnded(p) ==
    \E i \in 1..Len(events) :
        /\ events[i].type \in {"text_end", "thinking_end", "toolcall_end"}
        /\ events[i].contentIndex = p - 1

\* C23: a block whose end event has been pushed is not changed by any later
\* step, whatever tag the vendor event carries, and no later event is pushed
\* for it; a block delta consumed later changes at most a block whose end
\* event has not been pushed.
EndedBlockIsFinal ==
    [][\A p \in 1..Len(output.content) :
          HasEnded(p) =>
             /\ output'.content[p] = output.content[p]
             /\ \A i \in PushedBlockEvents : Pushed[i].contentIndex # p - 1]_vars

\* a text block was started and stopped, then a vendor block start and a
\* delta carrying one same tag were consumed: the delta went to the second
\* block, the first is as it was when it ended
EndedBlockIsFinalWitness ==
    /\ pc = "loop"
    /\ consumed = 4
    /\ Len(output.content) = 2
    /\ HasEnded(1)
    /\ ~HasEnded(2)
    /\ output.content[1] = [type |-> "text", text |-> <<>>]
    /\ event.type = "content_block_delta"
    /\ output.content[2].index = event.index
    /\ output.content[2].type = "text"
    /\ output.content[2].text # <<>>
    /\ Len(events) = 5
    /\ events[5].contentIndex = 1

\* ------------------------------------------------------------------------
\* Properties of convertMessages, continued
\* ------------------------------------------------------------------------

IsHighSurrogate(c) == c >= 55296 /\ c <= 56319

IsLowSurrogate(c) == c >= 56320 /\ c <= 57343

\* the code unit at position n of the text is a surrogate that is not half
\* of a pair: a high one not followed by a low one, a low one not preceded
\* by a high one
IsLoneSurrogate(text, n) ==
    \/ /\ IsHighSurrogate(text[n])
       /\ ~(n < Len(text) /\ IsLowSurrogate(text[n + 1]))
    \/ /\ IsLowSurrogate(text[n])
       /\ ~(n > 1 /\ IsHighSurrogate(text[n - 1]))

\* the text with its lone surrogates replaced by U+FFFD and nothing else
LoneSurrogatesReplaced(text) ==
    [n \in 1..Len(text) |-> IF IsLoneSurrogate(text, n) THEN 65533 ELSE text[n]]

\* C24: the text that goes out for a user turn whose content is a string is
\* the content with every lone surrogate replaced by U+FFFD and every other
\* code unit, the two halves of a surrogate pair included, as it was; it is
\* as long as the content and holds no lone surrogate.
SanitizeKeepsPairs ==
    [][(/\ pc = "convert"
        /\ msgIndex <= Len(messages)
        /\ messages[msgIndex].role = "user"
        /\ messages[msgIndex].content.kind = "string"
        /\ Len(params') = Len(params) + 1) =>
          LET text == messages[msgIndex].content.text
              sent == params'[Len(params')].content.text
          IN /\ sent = LoneSurrogatesReplaced(text)
             /\ Len(sent) = Len(text)
             /\ \A n \in 1..Len(sent) : ~IsLoneSurrogate(sent, n)]_vars

\* the vendor message m holds an image block, among its parts or inside the
\* content of one of its tool_result blocks
HoldsImage(m) ==
    /\ m.content.kind = "array"
    /\ \E x \in 1..Len(m.content.parts) :
          LET part == m.content.parts[x] IN
          \/ part.type = "image"
          \/ /\ part.type = "tool_result"
             /\ part.content.kind = "array"
             /\ \E y \in 1..Len(part.content.parts) : part.content.parts[y].type = "image"

\* C25: for a model that takes no image, no message built by the converter
\* holds an image block, neither among the parts of a user message nor
\* inside the content of a tool_result block.
NoImageForTextModel ==
    "image" \notin model.input => \A m \in 1..Len(params) : ~HoldsImage(params[m])


\* ------------------------------------------------------------------------
\* Properties of the stream and its consumer
\* ------------------------------------------------------------------------

Pending == Len(events) - taken

\* C26 as stated: the translator does not run ahead of a slow consumer, the
\* number of events pushed but not yet taken stays bounded.  Stated for a
\* channel that holds at most two events; the run in which the consumer takes
\* nothing exceeds every capacity below the length of the vendor stream.
PendingBounded == Pending <= 2

\* C26, amended: the translator suspends only at the await of the next vendor
\* event.  Pushing an event never suspends it: whatever the consumer has
\* taken, the call, every iteration of the loop, the end of the vendor stream
\* and its failure can run, and the events pushed but not yet taken are
\* limited only by the number of vendor events consumed (one per vendor event
\* at most, the start event and the terminal event).  The iteration for a
\* content_block_stop is the loop step of the other events (Consume).
PushNeverSuspends ==
    /\ pc = "init" => ENABLED Call
    /\ pc = "loop" => ENABLED EndOfStream /\ ENABLED VendorThrows
    /\ (pc = "loop" /\ consumed < MaxConsumed) =>
           /\ ENABLED MessageStart
           /\ ENABLED BlockStart
           /\ ENABLED BlockDelta
           /\ ENABLED MessageDelta
           /\ ENABLED OtherEvent
    /\ Pending <= consumed + 2

\* the whole stream was translated while the consumer took nothing: every
\* vendor event pushed one event, and all of them wait
PushNeverSuspendsWitness ==
    /\ pc = "done"
    /\ taken = 0
    /\ consumed >= 3
    /\ Len(events) = consumed + 2
    /\ events[1].type = "start"
    /\ Last(events).type = "done"


CostCategories == {"input", "output", "cacheRead", "cacheWrite"}

\* C27: the cost follows the counters.  In every state, and so after every
\* message_start and message_delta that was processed, the cost of each
\* category is the current counter of the category times the model's price
\* per million tokens, divided by 1,000,000 (in units of 10^-8 dollar, with the
\* price in hundredths of a dollar), and the total is the sum of the four.
CostFollowsCounters ==
    LET u == output.usage IN
    /\ \A f \in CostCategories : u.cost[f] = u[f] * model.cost[f]
    /\ u.cost.total = u.cost.input + u.cost.output + u.cost.cacheRead + u.cost.cacheWrite

\* a message_delta has replaced the output counter the message_start had
\* reported, and the cost is the one of the new counters
CostFollowsCountersWitness ==
    /\ pc = "loop"
    /\ consumed = 2
    /\ event.type = "message_delta"
    /\ event.usage = [output_tokens |-> 5]
    /\ output.usage.input = 3
    /\ output.usage.output = 5
    /\ output.usage.cost.input = 900
    /\ output.usage.cost.output = 7500
    /\ output.usage.cost.cacheRead = 60
    /\ output.usage.cost.cacheWrite = 1500
    /\ output.usage.cost.total = 9960


\* ------------------------------------------------------------------------
\* Properties of the request, continued
\* ------------------------------------------------------------------------

\* C28 as stated: when the caller supplies no output token cap, the cap sent
\* to the vendor never exceeds the maxTokens of the model, whatever the
\* reasoning level.  Stated here for the calls that give no budget override
\* either, where only the model table and the default budgets decide.
CapWithinModel ==
    (/\ pc = "built"
     /\ "maxTokens" \notin DOMAIN options
     /\ "thinkingBudgets" \notin DOMAIN options)
        => request.max_tokens <= model.maxTokens

====
